---------------------------- MODULE Spec2Model ----------------------------
(***************************************************************************)
(* Model of the response-assembly backend of the chat application:         *)
(*   convex/chatQueriesAndMutations.ts (src/unnamed/part_004): the queries *)
(*     and mutations over conversations, messages and fileMessageMappings; *)
(*   convex/chat.ts (src/unnamed/part_005): the generateAiResponse action  *)
(*     and the submit actions that schedule it;                            *)
(*   src/components/chat/ChatSidebar.tsx: the chat form's file selection   *)
(*     and handleSubmit.                                                   *)
(*                                                                         *)
(* A Convex query or mutation is one transaction and is modelled as one    *)
(* atomic step.  An action (sendMessage, generateAiResponse) is not a      *)
(* transaction: each await of a query, a mutation, the scheduler or the    *)
(* upstream provider is a step of its own, and steps of different actions  *)
(* interleave.                                                             *)
(*                                                                         *)
(* Strings are sequences of one-character strings.                         *)
(***************************************************************************)
EXTENDS Integers, Sequences, FiniteSets, TLC

VARIABLES
    conversation,         \* the conversations document of conversation c1
    messages,             \* the messages table, in insertion order; index = _id
    submissions,          \* the sendMessage calls: position and local variables of each
    jobs,                 \* the scheduled generateAiResponse runs: position and locals
    titleJobs,            \* number of generateConversationTitleAction runs scheduled
    now,                  \* Date.now()
    strictArgs,           \* whether the platform rejects a call that passes a field the
                          \* callee's args validator does not declare
    fileMessageMappings,  \* the fileMessageMappings table, in insertion order
    fed,                  \* history: concatenation of the deltas passed to appendMessageContent
    calls,                \* history: number of calls made by the driver of a specification
    lastCall,             \* the last call made against the file index and its outcome
    selectedFiles,        \* the chat form's selectedFiles state, in selection order
    uploads,              \* uuids of the files whose upload has not settled yet
    uuids,                \* number of uuids handed out by crypto.randomUUID()
    lastSubmit            \* the last handleSubmit call: what it saw and what it called

turnVars == <<conversation, messages, submissions, jobs, titleJobs, now, strictArgs>>
indexVars == <<fileMessageMappings, lastCall>>
driverVars == <<fed, calls>>
formVars == <<selectedFiles, uploads, uuids, lastSubmit>>
vars == <<turnVars, indexVars, driverVars, formVars>>

-----------------------------------------------------------------------------
(* Bounds of the model *)

\* MAX_MESSAGE_SIZE is 50 * 1024 in the source; the model scales the cap down
\* so that streams of a few short deltas reach it.
MAX_MESSAGE_SIZE == 3

\* number of appendMessageContent calls the append driver makes
MaxAppendCalls == 4

\* number of sendMessage calls made on the conversation
MaxSubmissions == 2

\* number of events (chunks) the provider delivers on one stream
MaxEvents == 2

\* MAX_FILES is 10 in the source; the model scales it down.
MAX_FILES == 2

\* number of files picked in the chat form over one run
MaxPicked == 3

-----------------------------------------------------------------------------
(* Strings *)

Min(a, b) == IF a <= b THEN a ELSE b

\* String.prototype.substring(0, n)
Substring0(s, n) == SubSeq(s, 1, Min(Len(s), n))

IsWhitespace(ch) == ch = " "

\* String.prototype.trim
RECURSIVE TrimStart(_)
TrimStart(s) ==
    IF s = <<>> THEN <<>>
    ELSE IF IsWhitespace(Head(s)) THEN TrimStart(Tail(s)) ELSE s

RECURSIVE TrimEnd(_)
TrimEnd(s) ==
    IF s = <<>> THEN <<>>
    ELSE IF IsWhitespace(s[Len(s)]) THEN TrimEnd(SubSeq(s, 1, Len(s) - 1)) ELSE s

Trim(s) == TrimEnd(TrimStart(s))

-----------------------------------------------------------------------------
(* Documents *)

Users == {"u1", "u2"}
ConversationIds == {"c1", "c2", "c3"}

\* Owner of each conversation.  c1 is the conversation the turns run on.
ConversationOwner(c) == IF c = "c3" THEN "u2" ELSE "u1"

\* A deleted (or never inserted) document: ctx.db.get returns null.
NoDoc == [exists |-> FALSE]

None == "none"    \* an optional field that is not set
NoMessage == 0    \* an optional message id that is not set

MessageExists(msgs, id) == id \in 1..Len(msgs) /\ msgs[id].exists

\* ctx.db.insert("messages", {...}) of an assistant message (storeAiMessage).
\* errorDetails is the field of that name the client reads from a message: no
\* insert and no patch writes it.
AssistantDoc(conversationId, content, status) ==
    [exists |-> TRUE, conversationId |-> conversationId, author |-> "assistant",
     content |-> content, status |-> status, openaiResponseId |-> None,
     reasoningSummary |-> <<>>, citations |-> <<>>,
     model |-> None, webSearchEnabled |-> FALSE, thinkingIntensity |-> None,
     timezoneValid |-> TRUE, fileIds |-> 0, errorDetails |-> None]

\* ctx.db.insert("messages", {...}) of a user message (storeUserMessage)
UserDoc(conversationId, args) ==
    [exists |-> TRUE, conversationId |-> conversationId, author |-> "user",
     content |-> args.content, status |-> None, openaiResponseId |-> None,
     reasoningSummary |-> <<>>, citations |-> <<>>,
     model |-> args.model, webSearchEnabled |-> args.webSearchEnabled,
     thinkingIntensity |-> args.thinkingIntensity,
     timezoneValid |-> args.timezoneValid, fileIds |-> 0, errorDetails |-> None]

\* .withIndex("by_conversationId", q => q.eq("conversationId", c)): ids, ascending
MessagesOf(msgs, c) ==
    {i \in 1..Len(msgs) : msgs[i].exists /\ msgs[i].conversationId = c}

SetMax(S) == CHOOSE x \in S : \A y \in S : y <= x

-----------------------------------------------------------------------------
(* appendMessageContent *)

\* A slip in the patch: the delta is stored in place of the content.
AppendMessageContentReplaces(msgs, messageId, content) ==
    IF ~MessageExists(msgs, messageId) THEN msgs
    ELSE [msgs EXCEPT ![messageId].content = Substring0(content, MAX_MESSAGE_SIZE)]

\* A slip in the order: the delta is put in front of the stored content.
AppendMessageContentPrepends(msgs, messageId, content) ==
    IF ~MessageExists(msgs, messageId) THEN msgs
    ELSE [msgs EXCEPT ![messageId].content =
              Substring0(content \o msgs[messageId].content, MAX_MESSAGE_SIZE)]

\* A slip in the truncation: the overflowing delta is appended whole.
AppendMessageContentNoCap(msgs, messageId, content) ==
    IF ~MessageExists(msgs, messageId) THEN msgs
    ELSE [msgs EXCEPT ![messageId].content = msgs[messageId].content \o content]

\* The messages table after appendMessageContent({messageId, content}).
AppendMessageContent(msgs, messageId, content) ==
    IF ~MessageExists(msgs, messageId) THEN msgs
    ELSE
        LET message == msgs[messageId]
            newContent == message.content \o content
            remainingSpace == MAX_MESSAGE_SIZE - Len(message.content)
        IN  IF Len(newContent) > MAX_MESSAGE_SIZE
            THEN IF remainingSpace <= 0
                 THEN msgs
                 ELSE [msgs EXCEPT ![messageId].content =
                           message.content \o Substring0(content, remainingSpace)]
            ELSE [msgs EXCEPT ![messageId].content = newContent]


-----------------------------------------------------------------------------
(* The file citation index: createUserFileMapping, createUserFileMappings,  *)
(* findFileByOpenAIId, findUserMessageByFileId                              *)

OpenaiFileIds == {"f1", "f2"}

\* .withIndex("by_openaiFileId", q => q.eq("openaiFileId", id)): the matching rows
MappingsOf(table, openaiFileId) ==
    {i \in 1..Len(table) : table[i].openaiFileId = openaiFileId}

\* A slip in the idempotence check: the insert is made unconditionally.
CreateUserFileMappingAlways(table, args) ==
    Append(table,
           [openaiFileId |-> args.openaiFileId,
            fileName |-> args.fileName,
            fileType |-> "user_upload",
            uploadedBy |-> args.uploadedBy,
            storageId |-> args.storageId,
            firstUsedInConversationId |-> args.firstUsedInConversationId,
            firstUsedInMessageId |-> args.firstUsedInMessageId])

\* The table after createUserFileMapping(args): insert unless a mapping exists.
CreateUserFileMapping(table, args) ==
    IF MappingsOf(table, args.openaiFileId) = {}
    THEN Append(table,
                [openaiFileId |-> args.openaiFileId,
                 fileName |-> args.fileName,
                 fileType |-> "user_upload",
                 uploadedBy |-> args.uploadedBy,
                 storageId |-> args.storageId,
                 firstUsedInConversationId |-> args.firstUsedInConversationId,
                 firstUsedInMessageId |-> args.firstUsedInMessageId])
    ELSE table

\* The table after createUserFileMappings: one createUserFileMapping per element,
\* in order, all with the batch's uploader, conversation and message.
RECURSIVE CreateUserFileMappings(_, _, _, _, _)
CreateUserFileMappings(table, uploadedBy, conversationId, messageId, fileMappings) ==
    IF fileMappings = <<>> THEN table
    ELSE CreateUserFileMappings(
             CreateUserFileMapping(table,
                 [openaiFileId |-> Head(fileMappings).openaiFileId,
                  fileName |-> Head(fileMappings).fileName,
                  uploadedBy |-> uploadedBy,
                  storageId |-> Head(fileMappings).storageId,
                  firstUsedInConversationId |-> conversationId,
                  firstUsedInMessageId |-> messageId]),
             uploadedBy, conversationId, messageId, Tail(fileMappings))

\* ctx.db.get(conversationId): c1 is the stored document, c2 and c3 always exist.
GetConversationDoc(conv, c) ==
    IF c = "c1" THEN conv ELSE [exists |-> TRUE, userId |-> ConversationOwner(c)]

\* Outcomes of a query: a returned value, null, or a raised error.
Null == [kind |-> "null"]
Raised(msg) == [kind |-> "error", message |-> msg]
Returned(v) == [kind |-> "value", value |-> v]

\* A slip in the access check: the uploader is not compared with the caller.
FindFileByOpenAIIdNoCheck(table, user, openaiFileId) ==
    IF MappingsOf(table, openaiFileId) = {} THEN Null
    ELSE LET fileMapping == table[CHOOSE i \in MappingsOf(table, openaiFileId) : TRUE] IN
         Returned([fileName |-> fileMapping.fileName,
                   fileType |-> fileMapping.fileType,
                   storageId |-> fileMapping.storageId,
                   uploadedBy |-> fileMapping.uploadedBy,
                   firstUsedInConversationId |-> fileMapping.firstUsedInConversationId,
                   firstUsedInMessageId |-> fileMapping.firstUsedInMessageId])

\* findFileByOpenAIId({openaiFileId}) called by user
FindFileByOpenAIId(table, user, openaiFileId) ==
    LET found == MappingsOf(table, openaiFileId) IN
    IF found = {} THEN Null
    ELSE LET fileMapping == table[CHOOSE i \in found : TRUE] IN
         IF fileMapping.fileType = "user_upload" /\ fileMapping.uploadedBy # user
         THEN Raised("Access denied: file was not uploaded by current user")
         ELSE Returned([fileName |-> fileMapping.fileName,
                        fileType |-> fileMapping.fileType,
                        storageId |-> fileMapping.storageId,
                        uploadedBy |-> fileMapping.uploadedBy,
                        firstUsedInConversationId |-> fileMapping.firstUsedInConversationId,
                        firstUsedInMessageId |-> fileMapping.firstUsedInMessageId])

\* A slip in the scoping: a mapping first used in another conversation is resolved.
FindUserMessageByFileIdImplUnscoped(conv, table, user, conversationId, openaiFileId) ==
    LET c == GetConversationDoc(conv, conversationId)
        found == MappingsOf(table, openaiFileId) IN
    IF ~c.exists \/ c.userId # user
    THEN Raised("Access denied: conversation does not belong to user")
    ELSE IF found = {} THEN Null
    ELSE LET fileMapping == table[CHOOSE i \in found : TRUE] IN
         IF fileMapping.uploadedBy # user
         THEN Raised("Access denied: file was not uploaded by current user")
         ELSE IF fileMapping.firstUsedInMessageId # NoMessage
         THEN Returned([messageId |-> fileMapping.firstUsedInMessageId,
                        fileName |-> fileMapping.fileName])
         ELSE Null

\* A slip in the ownership check: the uploader is not compared with the caller.
FindUserMessageByFileIdImplAnyUploader(conv, table, user, conversationId, openaiFileId) ==
    LET c == GetConversationDoc(conv, conversationId)
        found == MappingsOf(table, openaiFileId) IN
    IF ~c.exists \/ c.userId # user
    THEN Raised("Access denied: conversation does not belong to user")
    ELSE IF found = {} THEN Null
    ELSE LET fileMapping == table[CHOOSE i \in found : TRUE] IN
         IF /\ fileMapping.firstUsedInConversationId # None
            /\ fileMapping.firstUsedInConversationId # conversationId
         THEN Null
         ELSE IF fileMapping.firstUsedInMessageId # NoMessage
         THEN Returned([messageId |-> fileMapping.firstUsedInMessageId,
                        fileName |-> fileMapping.fileName])
         ELSE Null

\* findUserMessageByFileId({conversationId, openaiFileId}) called by user
FindUserMessageByFileIdImpl(conv, table, user, conversationId, openaiFileId) ==
    LET c == GetConversationDoc(conv, conversationId)
        found == MappingsOf(table, openaiFileId) IN
    IF ~c.exists \/ c.userId # user
    THEN Raised("Access denied: conversation does not belong to user")
    ELSE IF found = {} THEN Null
    ELSE LET fileMapping == table[CHOOSE i \in found : TRUE] IN
         IF /\ fileMapping.firstUsedInConversationId # None
            /\ fileMapping.firstUsedInConversationId # conversationId
         THEN Null
         ELSE IF fileMapping.fileType = "user_upload" /\ fileMapping.uploadedBy # user
         THEN Raised("Access denied: file was not uploaded by current user")
         ELSE IF fileMapping.firstUsedInMessageId # NoMessage
         THEN Returned([messageId |-> fileMapping.firstUsedInMessageId,
                        fileName |-> fileMapping.fileName])
         ELSE Null


-----------------------------------------------------------------------------
(* Mutations on one assistant message.  An optional argument that is not    *)
(* passed (undefined) is None for a string, <<>> for a list or a text.      *)

\* storeAiMessage: the conversation document after the insert.  The activity
\* time is patched unless the status is "typing".
\* A slip in the status test: the activity time is bumped for every status.
StoreAiMessageConversationAlways(conv, status, time) ==
    [conv EXCEPT !.updatedTime = time]

StoreAiMessageConversation(conv, status, time) ==
    IF status # "typing" THEN [conv EXCEPT !.updatedTime = time] ELSE conv

\* markMessageComplete({messageId, openaiResponseId, reasoningSummary, citations})
MarkMessageComplete(msgs, messageId, openaiResponseId, reasoningSummary, citations) ==
    IF ~MessageExists(msgs, messageId) THEN msgs
    ELSE [msgs EXCEPT
            ![messageId].status = "completed",
            ![messageId].openaiResponseId =
                IF openaiResponseId # None THEN openaiResponseId ELSE @,
            ![messageId].reasoningSummary =
                IF reasoningSummary # <<>> THEN reasoningSummary ELSE @,
            ![messageId].citations =
                IF citations # <<>> THEN citations ELSE @]

\* markMessageError({messageId}): the handler reads no other argument.
MarkMessageError(msgs, messageId) ==
    IF ~MessageExists(msgs, messageId) THEN msgs
    ELSE [msgs EXCEPT ![messageId].status = "error"]

\* updateReasoningSummary({messageId, reasoningSummary})
UpdateReasoningSummary(msgs, messageId, reasoningSummary) ==
    IF ~MessageExists(msgs, messageId) THEN msgs
    ELSE [msgs EXCEPT ![messageId].reasoningSummary = reasoningSummary]

\* updateConversationResponseId({conversationId, responseId})
UpdateConversationResponseId(conv, responseId) ==
    IF ~conv.exists THEN conv
    ELSE [conv EXCEPT !.lastResponseId = responseId]

-----------------------------------------------------------------------------
(* Citation accumulation in generateAiResponse *)

\* An annotation of the provider: type, the file id or url, the filename or title
\* (None when the provider sends none).
FileAnnotation(fileId, filename) ==
    [type |-> "file_citation", ref |-> fileId, label |-> filename]
UrlAnnotation(url, title) ==
    [type |-> "url_citation", ref |-> url, label |-> title]

FileCitation(fileId, fileName) == [type |-> "file", fileId |-> fileId, fileName |-> fileName]
UrlCitation(url, title) == [type |-> "url", url |-> url, title |-> title]

HasFileCitation(citations, fileId) ==
    \E i \in 1..Len(citations) :
        citations[i].type = "file" /\ citations[i].fileId = fileId
HasUrlCitation(citations, url) ==
    \E i \in 1..Len(citations) :
        citations[i].type = "url" /\ citations[i].url = url

\* A slip in the dedup: the key check is left out.
AddCitationNoDedup(citations, annotation) ==
    IF annotation.type = "file_citation"
    THEN Append(citations, FileCitation(annotation.ref,
             IF annotation.label # None THEN annotation.label ELSE "unknown"))
    ELSE Append(citations, UrlCitation(annotation.ref,
             IF annotation.label # None THEN annotation.label ELSE "Web Result"))

\* The body of the loop over annotations: push unless the key is present.
AddCitation(citations, annotation) ==
    IF annotation.type = "file_citation"
    THEN LET fileId == annotation.ref
             fileName == IF annotation.label # None THEN annotation.label ELSE "unknown"
         IN  IF ~HasFileCitation(citations, fileId)
             THEN Append(citations, FileCitation(fileId, fileName))
             ELSE citations
    ELSE IF annotation.type = "url_citation"
    THEN LET url == annotation.ref
             title == IF annotation.label # None THEN annotation.label ELSE "Web Result"
         IN  IF ~HasUrlCitation(citations, url)
             THEN Append(citations, UrlCitation(url, title))
             ELSE citations
    ELSE citations

\* for (const annotation of annotations) { ... }
RECURSIVE AddCitations(_, _)
AddCitations(citations, annotations) ==
    IF annotations = <<>> THEN citations
    ELSE AddCitations(AddCitation(citations, Head(annotations)), Tail(annotations))

\* The OpenRouter branches keep url citations only.
RECURSIVE AddUrlCitations(_, _)
AddUrlCitations(citations, annotations) ==
    IF annotations = <<>> THEN citations
    ELSE AddUrlCitations(
             IF Head(annotations).type = "url_citation"
             THEN AddCitation(citations, Head(annotations))
             ELSE citations,
             Tail(annotations))


-----------------------------------------------------------------------------
(* convex/constants.ts *)

SUPPORTED_MODELS ==
    {[id |-> "gpt-4.1", thinking |-> FALSE, openRouter |-> FALSE],
     [id |-> "o4-mini", thinking |-> TRUE, openRouter |-> FALSE],
     [id |-> "o3", thinking |-> TRUE, openRouter |-> FALSE],
     [id |-> "o3-pro", thinking |-> TRUE, openRouter |-> FALSE],
     [id |-> "google/gemini-2.0-flash-001", thinking |-> FALSE, openRouter |-> TRUE],
     [id |-> "x-ai/grok-3-mini-beta", thinking |-> TRUE, openRouter |-> TRUE]}

isSupportedModel(model) == \E m \in SUPPORTED_MODELS : m.id = model
isThinkingModel(model) == \E m \in SUPPORTED_MODELS : m.id = model /\ m.thinking
isOpenRouterModel(model) == \E m \in SUPPORTED_MODELS : m.id = model /\ m.openRouter

-----------------------------------------------------------------------------
(* Inputs *)

\* Arguments of a sendMessage call.  timezoneValid says whether the timezone
\* string names a time zone (args.timezone is any string); the two keys say
\* whether the key was passed.
Args(content, model, web, thinking, tz, openaiKey, openrouterKey) ==
    [content |-> content, model |-> model, webSearchEnabled |-> web,
     thinkingIntensity |-> thinking, timezoneValid |-> tz,
     openaiApiKey |-> openaiKey, openrouterApiKey |-> openrouterKey]

SubmitArgs ==
    {Args(<<"h">>, "gpt-4.1", FALSE, None, TRUE, TRUE, TRUE),
     Args(<<"h">>, None, FALSE, None, TRUE, FALSE, TRUE),
     Args(<<"h">>, "o4-mini", FALSE, "high", FALSE, TRUE, TRUE),
     Args(<<"h">>, "google/gemini-2.0-flash-001", FALSE, None, TRUE, TRUE, TRUE),
     Args(<<"h">>, "google/gemini-2.0-flash-001", TRUE, None, TRUE, TRUE, TRUE),
     Args(<<" ">>, "gpt-4.1", FALSE, None, TRUE, TRUE, TRUE),
     Args(<<"h">>, "gpt-4.1", FALSE, "low", TRUE, TRUE, TRUE),
     Args(<<"h">>, "no-such-model", FALSE, None, TRUE, TRUE, TRUE),
     Args(<<"h", "e", "l", "l", "o">>, "gpt-4.1", FALSE, None, TRUE, TRUE, TRUE)}

\* Content deltas, reasoning deltas and annotation lists the provider sends.
Deltas == {<<"a">>, <<" ">>, <<"b", "c">>}
ReasoningDeltas == {<<"r">>}
AnnotationLists ==
    {<<>>,
     <<FileAnnotation("f1", "a.pdf")>>,
     <<FileAnnotation("f1", "renamed.pdf"), UrlAnnotation("w1", None)>>,
     <<UrlAnnotation("w1", "t1"), FileAnnotation("f2", None), UrlAnnotation("w1", "t2")>>}

\* An event of the Responses API stream.  completedBad is a response.completed
\* event that carries no response object, so that reading event.response.output
\* raises inside the per-event try block.
Event(type, text, annotations) ==
    [type |-> type, text |-> text, annotations |-> annotations]

OpenAIEvents ==
    {Event("created", <<>>, <<>>), Event("completedBad", <<>>, <<>>),
     Event("other", <<>>, <<>>)}
    \cup {Event("delta", d, <<>>) : d \in Deltas}
    \cup {Event("rdelta", r, <<>>) : r \in ReasoningDeltas}
    \cup {Event("rdone", r, <<>>) : r \in ReasoningDeltas}
    \cup {Event("textdone", <<>>, a) : a \in AnnotationLists}
    \cup {Event("completed", <<>>, a) : a \in AnnotationLists}

\* A chunk of a chat-completions stream: choices[0].delta may be absent; content
\* and reasoning are "" when absent; stop says finish_reason === "stop".
Chunk(hasDelta, content, reasoning, stop, annotations) ==
    [choices |-> TRUE, hasDelta |-> hasDelta, content |-> content,
     reasoning |-> reasoning, stop |-> stop, annotations |-> annotations]

\* A malformed chunk: it has no choices array, so chunk.choices[0] raises.
ChunkWithoutChoices ==
    [Chunk(FALSE, <<>>, <<>>, FALSE, <<>>) EXCEPT !.choices = FALSE]

OpenRouterChunks ==
    {Chunk(FALSE, <<>>, <<>>, TRUE, <<>>), ChunkWithoutChoices}
    \cup {Chunk(TRUE, d, <<>>, FALSE, <<>>) : d \in Deltas}
    \cup {Chunk(TRUE, <<>>, r, FALSE, <<>>) : r \in ReasoningDeltas}
    \cup {Chunk(TRUE, <<>>, <<>>, TRUE, a) : a \in AnnotationLists}

\* The response id the provider gives the upstream call of job j.
ResponseIdOf(j) == "r" \o ToString(j)

\* The apology texts appended on failure, scaled like MAX_MESSAGE_SIZE:
\* "Sorry, I encountered an error while generating a response." and
\* "Sorry, I encountered an error while preparing the response."
ApologyGenerating == <<"S", "g">>
ApologyPreparing == <<"S", "p">>


\* The errorDetails argument of the two markMessageError calls of the turn:
\* a fixed text for empty content, getUserFriendlyErrorMessage(error) in the
\* inner catch.
ErrorDetailsPassed(pc) ==
    IF pc = "markEmpty" THEN "No content was generated in the response."
    ELSE "An unexpected error occurred. Please try again."

-----------------------------------------------------------------------------
(* sendMessage: an action, one step per await *)

SubmissionIds == 1..MaxSubmissions

SubmissionIdle ==
    [pc |-> "idle", user |-> None, args |-> None, isFirstMessage |-> FALSE,
     userMessageId |-> NoMessage]   \* history: the message the call stored

JobNone ==
    [pc |-> "none", openaiApiKey |-> FALSE, openrouterApiKey |-> FALSE,
     lastResponseId |-> None, lastMessage |-> 0, selectedModel |-> None,
     webSearchEnabled |-> FALSE, timezoneValid |-> TRUE, aiMessageId |-> 0,
     fullContent |-> <<>>, openaiResponseId |-> "", reasoningSummary |-> <<>>,
     citations |-> <<>>, events |-> 0,
     \* history of the turn, read by the properties only:
     upstreamCalls |-> 0,     \* upstream requests issued
     wroteToken |-> FALSE,    \* the turn patched the conversation's lastResponseId
     streamed |-> <<>>,       \* concatenation of the content deltas delivered
     reasoned |-> <<>>,       \* concatenation of the reasoning deltas delivered
     reasoningDone |-> FALSE, \* the done event came with the text of those deltas
     seen |-> <<>>,           \* the annotations handled, in order
     cleanEnd |-> FALSE,      \* the stream ended without raising
     completions |-> 0,       \* markMessageComplete calls that patched the message
     completedAfter |-> {},   \* the turns that had completed their message before
     request |-> <<>>,        \* the messages of the request sent to OpenRouter
     failures |-> 0]          \* markMessageError calls that patched the message

SendMessageAcceptsAnyModel(conv, user, args) ==
    conv.exists /\ conv.userId = user

\* getLoggedInUser, getConversation({conversationId, userId}), the ownership
\* test and the model validation: the call raises before anything is written
\* unless the caller owns the conversation and the model arguments are valid.
SendMessageAccepts(conv, user, args) ==
    /\ conv.exists
    /\ conv.userId = user
    /\ args.model # None =>
          /\ isSupportedModel(args.model)
          /\ args.thinkingIntensity # None => isThinkingModel(args.model)

SendMessageStart(s, argSet) ==
    /\ submissions[s].pc = "idle"
    /\ s > 1 => submissions[s - 1].pc # "idle"
    /\ \E user \in Users, args \in argSet :
          submissions' = [submissions EXCEPT ![s] =
              [pc |-> IF SendMessageAccepts(conversation, user, args)
                      THEN "getFirstMessage" ELSE "raised",
               user |-> user, args |-> args, isFirstMessage |-> FALSE,
               userMessageId |-> NoMessage]]
    /\ UNCHANGED <<conversation, messages, jobs, titleJobs, now, strictArgs>>
    /\ UNCHANGED <<indexVars, driverVars, formVars>>

\* getFirstMessage({conversationId}): isFirstMessage = (firstMessage === null)
SendMessageGetFirstMessage(s) ==
    /\ submissions[s].pc = "getFirstMessage"
    /\ submissions' = [submissions EXCEPT
          ![s].pc = "storeUserMessage",
          ![s].isFirstMessage = (MessagesOf(messages, "c1") = {})]
    /\ UNCHANGED <<conversation, messages, jobs, titleJobs, now, strictArgs>>
    /\ UNCHANGED <<indexVars, driverVars, formVars>>

\* storeUserMessage: insert the user message and patch the conversation's
\* updatedTime.  ctx.db.patch of a deleted document raises, which aborts the
\* mutation (nothing is inserted) and with it the action.
SendMessageStoreUserMessage(s) ==
    /\ submissions[s].pc = "storeUserMessage"
    /\ IF conversation.exists
       THEN /\ messages' = Append(messages, UserDoc("c1", submissions[s].args))
            /\ conversation' = [conversation EXCEPT !.updatedTime = now]
            /\ now' = now + 1
            /\ submissions' = [submissions EXCEPT
                  ![s].pc = "schedule",
                  ![s].userMessageId = Len(messages) + 1]
       ELSE /\ submissions' = [submissions EXCEPT ![s].pc = "raised"]
            /\ UNCHANGED <<messages, conversation, now>>
    /\ UNCHANGED <<jobs, titleJobs, strictArgs>>
    /\ UNCHANGED <<indexVars, driverVars, formVars>>

\* scheduler.runAfter(0, generateAiResponse) and, for a first message,
\* scheduler.runAfter(5000, generateConversationTitleAction).  Both calls touch
\* the scheduler only.
SendMessageSchedule(s) ==
    /\ submissions[s].pc = "schedule"
    /\ jobs' = [jobs EXCEPT ![s] =
          [JobNone EXCEPT !.pc = "getConversation",
                          !.openaiApiKey = submissions[s].args.openaiApiKey,
                          !.openrouterApiKey = submissions[s].args.openrouterApiKey]]
    /\ titleJobs' = IF submissions[s].isFirstMessage THEN titleJobs + 1 ELSE titleJobs
    /\ submissions' = [submissions EXCEPT ![s].pc = "done"]
    /\ UNCHANGED <<conversation, messages, now, strictArgs>>
    /\ UNCHANGED <<indexVars, driverVars, formVars>>

-----------------------------------------------------------------------------
(* deleteConversation: a mutation, by the owner *)

\* A slip in the cascade: only the messages the user wrote are deleted.
DeletedMessagesOfUser(msgs, c) ==
    [i \in 1..Len(msgs) |->
        IF msgs[i].exists /\ msgs[i].conversationId = c /\ msgs[i].author = "user"
        THEN NoDoc ELSE msgs[i]]

\* for (const msg of messages) await ctx.db.delete(msg._id)
DeletedMessages(msgs, c) ==
    [i \in 1..Len(msgs) |->
        IF msgs[i].exists /\ msgs[i].conversationId = c THEN NoDoc ELSE msgs[i]]

DeleteConversation ==
    /\ conversation.exists
    /\ messages' = DeletedMessages(messages, "c1")
    /\ conversation' = NoDoc
    /\ UNCHANGED <<submissions, jobs, titleJobs, now, strictArgs>>
    /\ UNCHANGED <<indexVars, driverVars, formVars>>


-----------------------------------------------------------------------------
(* generateAiResponse: an internal action, one step per await *)

JobIds == SubmissionIds

JobUnchanged == UNCHANGED <<submissions, titleJobs, strictArgs>>
                /\ UNCHANGED <<indexVars, driverVars, formVars>>

\* getLastUserMessage: the newest message of the conversation written by the user
LastUserMessage(msgs, c) ==
    LET mine == {i \in MessagesOf(msgs, c) : msgs[i].author = "user"}
    IN  IF mine = {} THEN 0 ELSE SetMax(mine)

\* The provider branch the turn takes.
Branch(job) ==
    IF isOpenRouterModel(job.selectedModel)
    THEN IF job.webSearchEnabled THEN "openrouterWeb" ELSE "openrouter"
    ELSE "openai"

\* getConversation({conversationId}); return if there is none.
GenGetConversation(j) ==
    /\ jobs[j].pc = "getConversation"
    /\ jobs' = [jobs EXCEPT ![j] =
          IF conversation.exists
          THEN [@ EXCEPT !.pc = "getLastUserMessage",
                         !.lastResponseId = conversation.lastResponseId]
          ELSE [@ EXCEPT !.pc = "returned"]]
    /\ UNCHANGED <<conversation, messages, now>>
    /\ JobUnchanged

\* getLastUserMessage({conversationId}); return if there is none or if it has
\* neither text nor files; otherwise take the model (default gpt-4.1, also
\* for an unsupported id), the web-search flag and the timezone from it.
GenGetLastUserMessage(j) ==
    /\ jobs[j].pc = "getLastUserMessage"
    /\ LET last == LastUserMessage(messages, "c1") IN
       jobs' = [jobs EXCEPT ![j] =
          IF last = 0 THEN [@ EXCEPT !.pc = "returned"]
          ELSE IF Trim(messages[last].content) = <<>> /\ messages[last].fileIds = 0
          THEN [@ EXCEPT !.pc = "returned", !.lastMessage = last]
          ELSE [@ EXCEPT
                  !.pc = "storeAiMessage",
                  !.lastMessage = last,
                  !.selectedModel =
                      IF messages[last].model # None /\ isSupportedModel(messages[last].model)
                      THEN messages[last].model ELSE "gpt-4.1",
                  !.webSearchEnabled = messages[last].webSearchEnabled,
                  !.timezoneValid = messages[last].timezoneValid]]
    /\ UNCHANGED <<conversation, messages, now>>
    /\ JobUnchanged

\* storeAiMessage({conversationId, content: "", status: "typing"}), then
\* new Date().toLocaleString("en-US", {timeZone: userTimezone}), which raises
\* a RangeError for a string that names no time zone: outside the inner try.
GenStoreAiMessage(j) ==
    /\ jobs[j].pc = "storeAiMessage"
    /\ messages' = Append(messages, AssistantDoc("c1", <<>>, "typing"))
    /\ conversation' = StoreAiMessageConversation(conversation, "typing", now)
    /\ jobs' = [jobs EXCEPT
          ![j].aiMessageId = Len(messages) + 1,
          ![j].pc = IF jobs[j].timezoneValid THEN "open" ELSE "outerCatch"]
    /\ UNCHANGED now
    /\ JobUnchanged

\* One of the calls awaited before the placeholder exists (getConversation,
\* getLastUserMessage, storeAiMessage) raises: the outer catch is next.
GenRaisesBeforePlaceholder(j) ==
    /\ jobs[j].pc \in {"getConversation", "getLastUserMessage", "storeAiMessage"}
    /\ jobs' = [jobs EXCEPT ![j].pc = "outerCatch"]
    /\ UNCHANGED <<conversation, messages, now>>
    /\ JobUnchanged

\* getRecentMessages({conversationId, userId}): the ids of the conversation's
\* messages, most recent first, at most RECENT_MESSAGES of them.
RECENT_MESSAGES == 20

Reverse(s) == [i \in 1..Len(s) |-> s[Len(s) + 1 - i]]

GetRecentMessages(msgs, c) ==
    LET ids == SelectSeq([i \in 1..Len(msgs) |-> i],
                         LAMBDA i : msgs[i].exists /\ msgs[i].conversationId = c)
        desc == Reverse(ids)
    IN  SubSeq(desc, 1, Min(Len(desc), RECENT_MESSAGES))

\* One entry of the messages array sent upstream.  messageId and author are
\* history: the stored message the entry was made from and who wrote it.
RequestMessage(role, content, messageId, author) ==
    [role |-> role, content |-> content, messageId |-> messageId, author |-> author]

\* history: the recent messages in chronological order, each mapped to a role
\* by the test message.author === "ai".
History(msgs, c) ==
    LET recentMessages == Reverse(GetRecentMessages(msgs, c)) IN
    [k \in 1..Len(recentMessages) |->
        LET message == msgs[recentMessages[k]] IN
        RequestMessage(IF message.author = "ai" THEN "assistant" ELSE "user",
                       message.content, recentMessages[k], message.author)]

\* The messages of the streaming request of an OpenRouter branch, the system
\* message left out: the web-search branch adds the current user message.
RequestMessages(msgs, job) ==
    IF Branch(job) = "openrouterWeb"
    THEN Append(History(msgs, "c1"),
                RequestMessage("user", msgs[job.lastMessage].content,
                               job.lastMessage, "user"))
    ELSE History(msgs, "c1")

\* Inside the inner try: the key check of the branch, getRecentMessages in the
\* OpenRouter branches (it raises "Not found" for a deleted conversation), then
\* the upstream call, which either returns a stream or raises.
GenOpen(j) ==
    /\ jobs[j].pc = "open"
    /\ LET keyPassed == IF Branch(jobs[j]) = "openai"
                        THEN jobs[j].openaiApiKey ELSE jobs[j].openrouterApiKey
           historyRead == Branch(jobs[j]) = "openai" \/ conversation.exists
       IN  IF keyPassed /\ historyRead
           THEN \E opened \in BOOLEAN :
                   jobs' = [jobs EXCEPT
                      ![j].pc = IF opened THEN "stream" ELSE "innerCatch",
                      ![j].request =
                          IF Branch(jobs[j]) = "openai" THEN <<>>
                          ELSE RequestMessages(messages, jobs[j]),
                      ![j].upstreamCalls = @ + 1]
           ELSE jobs' = [jobs EXCEPT ![j].pc = "innerCatch"]
    /\ UNCHANGED <<conversation, messages, now>>
    /\ JobUnchanged

\* 1 if a finalization of message id patches it (the message exists), else 0
Patches(msgs, id) == IF MessageExists(msgs, id) THEN 1 ELSE 0

\* The turns that have completed their message.
CompletedTurns == {k \in DOMAIN jobs : jobs[k].completions > 0}

\* Where the OpenAI branch goes when its loop is left: markMessageError if
\* fullContent.trim() is empty, else the action returns.
AfterOpenAILoop(fullContent) ==
    IF Trim(fullContent) = <<>> THEN "markEmpty" ELSE "returned"

\* One iteration of "for await (const event of response)" in the OpenAI branch.
GenOpenAIEvent(j, events) ==
    /\ jobs[j].pc = "stream"
    /\ Branch(jobs[j]) = "openai"
    /\ jobs[j].events < MaxEvents
    /\ \E event \in events :
        LET job == [jobs[j] EXCEPT !.events = @ + 1]
            id == job.aiMessageId
        IN  CASE event.type = "created" ->
                  /\ jobs' = [jobs EXCEPT ![j] =
                        [job EXCEPT !.openaiResponseId = ResponseIdOf(j)]]
                  /\ UNCHANGED messages
              [] event.type = "delta" ->
                  /\ jobs' = [jobs EXCEPT ![j] =
                        [job EXCEPT !.fullContent = @ \o event.text,
                                    !.streamed = @ \o event.text]]
                  /\ messages' = AppendMessageContent(messages, id, event.text)
              [] event.type \in {"rdelta", "rdone"} ->
                  /\ jobs' = [jobs EXCEPT ![j] =
                        [job EXCEPT
                            !.reasoningSummary = @ \o event.text,
                            !.reasoned =
                                IF event.type = "rdelta" THEN @ \o event.text ELSE @,
                            !.reasoningDone =
                                \/ @
                                \/ /\ event.type = "rdone"
                                   /\ job.reasoned # <<>>
                                   /\ event.text = job.reasoned]]
                  /\ messages' = UpdateReasoningSummary(messages, id,
                                     job.reasoningSummary \o event.text)
              [] event.type = "textdone" ->
                  /\ jobs' = [jobs EXCEPT ![j] =
                        [job EXCEPT !.citations = AddCitations(@, event.annotations),
                                    !.seen = @ \o event.annotations]]
                  /\ UNCHANGED messages
              [] event.type = "completed" ->
                  LET citations == AddCitations(job.citations, event.annotations) IN
                  /\ jobs' = [jobs EXCEPT ![j] =
                        [job EXCEPT !.citations = citations,
                                    !.seen = @ \o event.annotations,
                                    !.cleanEnd = TRUE,
                                    !.completions = @ + Patches(messages, id),
                                    !.completedAfter = CompletedTurns,
                                    !.pc = "updateConversationResponseId"]]
                  /\ messages' = MarkMessageComplete(messages, id,
                                     job.openaiResponseId,
                                     Trim(job.reasoningSummary), citations)
              [] OTHER ->
                  /\ jobs' = [jobs EXCEPT ![j] = job]
                  /\ UNCHANGED messages
    /\ UNCHANGED <<conversation, now>>
    /\ JobUnchanged

\* updateConversationResponseId after markMessageComplete, then break.
GenUpdateConversationResponseId(j) ==
    /\ jobs[j].pc = "updateConversationResponseId"
    /\ conversation' = UpdateConversationResponseId(conversation, jobs[j].openaiResponseId)
    /\ jobs' = [jobs EXCEPT
          ![j].pc = AfterOpenAILoop(jobs[j].fullContent),
          ![j].wroteToken = conversation.exists]
    /\ UNCHANGED <<messages, now>>
    /\ JobUnchanged

\* One iteration of "for await (const chunk of responseStream)" in the two
\* OpenRouter branches; the web-search branch collects no annotations here.
GenOpenRouterChunk(j, chunks) ==
    /\ jobs[j].pc = "stream"
    /\ Branch(jobs[j]) # "openai"
    /\ jobs[j].events < MaxEvents
    /\ \E chunk \in chunks :
        LET id == jobs[j].aiMessageId
            reasoningSummary == jobs[j].reasoningSummary \o chunk.reasoning
            appended == IF chunk.hasDelta /\ chunk.content # <<>>
                        THEN AppendMessageContent(messages, id, chunk.content)
                        ELSE messages
        IN  IF ~chunk.choices
            THEN \* no try/catch inside these loops: the inner catch is next
                 /\ jobs' = [jobs EXCEPT ![j].events = @ + 1,
                                         ![j].pc = "innerCatch"]
                 /\ UNCHANGED messages
            ELSE
            /\ messages' = IF chunk.hasDelta /\ chunk.reasoning # <<>>
                           THEN UpdateReasoningSummary(appended, id, reasoningSummary)
                           ELSE appended
            /\ jobs' = [jobs EXCEPT
                  ![j].events = @ + 1,
                  ![j].streamed = IF chunk.hasDelta THEN @ \o chunk.content ELSE @,
                  ![j].seen =
                      IF chunk.hasDelta /\ chunk.stop /\ Branch(jobs[j]) = "openrouter"
                      THEN @ \o chunk.annotations ELSE @,
                  ![j].reasoningSummary =
                      IF chunk.hasDelta THEN reasoningSummary ELSE @,
                  ![j].reasoned =
                      IF chunk.hasDelta THEN @ \o chunk.reasoning ELSE @,
                  ![j].citations =
                      IF chunk.hasDelta /\ chunk.stop /\ Branch(jobs[j]) = "openrouter"
                      THEN AddUrlCitations(@, chunk.annotations) ELSE @]
    /\ UNCHANGED <<conversation, now>>
    /\ JobUnchanged

\* The stream ends without a further event.
GenStreamEnd(j) ==
    /\ jobs[j].pc = "stream"
    /\ jobs' = [jobs EXCEPT
          ![j].cleanEnd = TRUE,
          ![j].pc =
              CASE Branch(jobs[j]) = "openai" -> AfterOpenAILoop(jobs[j].fullContent)
                [] Branch(jobs[j]) = "openrouter" -> "markComplete"
                [] OTHER -> "citationCall"]
    /\ UNCHANGED <<conversation, messages, now>>
    /\ JobUnchanged

\* The iteration of the stream raises (the transport fails).
GenStreamRaises(j) ==
    /\ jobs[j].pc = "stream"
    /\ jobs' = [jobs EXCEPT ![j].pc = "innerCatch"]
    /\ UNCHANGED <<conversation, messages, now>>
    /\ JobUnchanged

\* OpenRouter branch, after the loop: markMessageComplete, return.
GenOpenRouterComplete(j) ==
    /\ jobs[j].pc = "markComplete"
    /\ messages' = MarkMessageComplete(messages, jobs[j].aiMessageId, None,
                       Trim(jobs[j].reasoningSummary), jobs[j].citations)
    /\ jobs' = [jobs EXCEPT
          ![j].pc = "returned",
          ![j].completions = @ + Patches(messages, jobs[j].aiMessageId),
          ![j].completedAfter = CompletedTurns]
    /\ UNCHANGED <<conversation, now>>
    /\ JobUnchanged

\* OpenRouter web-search branch, after the loop: a second, non-streaming upstream
\* call for the citations.  Whether it returns annotations or raises, the
\* message is marked complete.
GenCitationCall(j, annotationLists) ==
    /\ jobs[j].pc = "citationCall"
    /\ \E annotations \in annotationLists :
          LET citations == AddUrlCitations(<<>>, annotations) IN
          /\ messages' = MarkMessageComplete(messages, jobs[j].aiMessageId, None,
                             Trim(jobs[j].reasoningSummary), citations)
          /\ jobs' = [jobs EXCEPT ![j].pc = "returned",
                                  ![j].citations = citations,
                                  ![j].seen = annotations,
                                  ![j].completions = @ + Patches(messages, jobs[j].aiMessageId),
                                  ![j].completedAfter = CompletedTurns,
                                  ![j].upstreamCalls = @ + 1]
    /\ UNCHANGED <<conversation, now>>
    /\ JobUnchanged

\* markMessageError({messageId, errorDetails}) for an empty fullContent.  The
\* args validator of markMessageError declares messageId only: where the
\* platform rejects the undeclared field the call raises into the inner catch.
GenMarkEmpty(j) ==
    /\ jobs[j].pc = "markEmpty"
    /\ IF strictArgs
       THEN /\ jobs' = [jobs EXCEPT ![j].pc = "innerCatch"]
            /\ UNCHANGED messages
       ELSE /\ jobs' = [jobs EXCEPT
                  ![j].pc = "returned",
                  ![j].failures = @ + Patches(messages, jobs[j].aiMessageId)]
            /\ messages' = MarkMessageError(messages, jobs[j].aiMessageId)
    /\ UNCHANGED <<conversation, now>>
    /\ JobUnchanged

\* Inner catch, first await: appendMessageContent of the apology.
GenInnerCatchAppend(j) ==
    /\ jobs[j].pc = "innerCatch"
    /\ messages' = AppendMessageContent(messages, jobs[j].aiMessageId, ApologyGenerating)
    /\ jobs' = [jobs EXCEPT ![j].pc = "innerCatchMark"]
    /\ UNCHANGED <<conversation, now>>
    /\ JobUnchanged

\* Inner catch, second await: markMessageError({messageId, errorDetails}).
\* Raised from inside the catch block, a rejection reaches the outer catch.
GenInnerCatchMark(j) ==
    /\ jobs[j].pc = "innerCatchMark"
    /\ IF strictArgs
       THEN /\ jobs' = [jobs EXCEPT ![j].pc = "outerCatch"]
            /\ UNCHANGED messages
       ELSE /\ jobs' = [jobs EXCEPT
                  ![j].pc = "returned",
                  ![j].failures = @ + Patches(messages, jobs[j].aiMessageId)]
            /\ messages' = MarkMessageError(messages, jobs[j].aiMessageId)
    /\ UNCHANGED <<conversation, now>>
    /\ JobUnchanged

\* Outer catch: storeAiMessage({conversationId, content, status: "error",
\* errorDetails}).  The args validator of storeAiMessage declares no
\* errorDetails; and the patch of updatedTime raises for a deleted
\* conversation, which aborts the mutation.  Either way the action raises.
GenOuterCatch(j) ==
    /\ jobs[j].pc = "outerCatch"
    /\ IF strictArgs \/ ~conversation.exists
       THEN /\ jobs' = [jobs EXCEPT ![j].pc = "raised"]
            /\ UNCHANGED <<messages, conversation, now>>
       ELSE /\ jobs' = [jobs EXCEPT ![j].pc = "returned"]
            /\ messages' = Append(messages, AssistantDoc("c1", ApologyPreparing, "error"))
            /\ conversation' = StoreAiMessageConversation(conversation, "error", now)
            /\ now' = now + 1
    /\ JobUnchanged

-----------------------------------------------------------------------------
(* The turn machine *)

ConversationInit ==
    [exists |-> TRUE, userId |-> ConversationOwner("c1"),
     lastResponseId |-> None, updatedTime |-> 0]

NoCall == [op |-> "none"]
QuietIndex == fileMessageMappings = <<>> /\ lastCall = NoCall
QuietDrivers == fed = <<>> /\ calls = 0
NoSubmit == [op |-> "none", statuses |-> <<>>, uploadedConvexFiles |-> <<>>,
             settled |-> TRUE]
QuietForm ==
    selectedFiles = <<>> /\ uploads = {} /\ uuids = 0 /\ lastSubmit = NoSubmit

Init ==
    /\ conversation = ConversationInit
    /\ messages = <<>>
    /\ submissions = [s \in SubmissionIds |-> SubmissionIdle]
    /\ jobs = [j \in JobIds |-> JobNone]
    /\ titleJobs = 0
    /\ now = 1
    /\ strictArgs \in BOOLEAN
    /\ QuietIndex
    /\ QuietDrivers
    /\ QuietForm

\* The steps of the turns that do not depend on what the provider sends.
TurnStep(j) ==
    \/ GenGetConversation(j)
    \/ GenGetLastUserMessage(j)
    \/ GenStoreAiMessage(j)
    \/ GenOpen(j)
    \/ GenUpdateConversationResponseId(j)
    \/ GenStreamEnd(j)
    \/ GenStreamRaises(j)
    \/ GenOpenRouterComplete(j)
    \/ GenMarkEmpty(j)
    \/ GenInnerCatchAppend(j)
    \/ GenInnerCatchMark(j)
    \/ GenOuterCatch(j)

SendStep(s) ==
    \/ SendMessageGetFirstMessage(s)
    \/ SendMessageStoreUserMessage(s)
    \/ SendMessageSchedule(s)

\* One submission and its turn, against every event the provider can send.
Next ==
    \/ SendMessageStart(1, SubmitArgs)
    \/ SendStep(1)
    \/ DeleteConversation
    \/ TurnStep(1)
    \/ GenOpenAIEvent(1, OpenAIEvents)
    \/ GenOpenRouterChunk(1, OpenRouterChunks)
    \/ GenCitationCall(1, AnnotationLists)
    \/ GenRaisesBeforePlaceholder(1)

Spec == Init /\ [][Next]_vars

\* Several submissions on the conversation, their steps interleaved, against a
\* provider that sends content only.
ConcurrentArgs ==
    {Args(<<"h">>, "gpt-4.1", FALSE, None, TRUE, TRUE, TRUE),
     Args(<<"h">>, "google/gemini-2.0-flash-001", FALSE, None, TRUE, TRUE, TRUE),
     Args(<<"h">>, "google/gemini-2.0-flash-001", TRUE, None, TRUE, TRUE, TRUE)}
ConcurrentEvents ==
    {Event("created", <<>>, <<>>), Event("delta", <<"a">>, <<>>),
     Event("completed", <<>>, <<>>)}
ConcurrentChunks == {Chunk(TRUE, <<"a">>, <<>>, FALSE, <<>>)}

NextConcurrent ==
    \/ \E s \in SubmissionIds : SendMessageStart(s, ConcurrentArgs)
    \/ \E s \in SubmissionIds : SendStep(s)
    \/ DeleteConversation
    \/ \E j \in JobIds : TurnStep(j)
    \/ \E j \in JobIds : GenOpenAIEvent(j, ConcurrentEvents)
    \/ \E j \in JobIds : GenOpenRouterChunk(j, ConcurrentChunks)
    \/ \E j \in JobIds : GenCitationCall(j, {<<>>})

SpecConcurrent == Init /\ [][NextConcurrent]_vars


-----------------------------------------------------------------------------
(* appendMessageContent driven on one placeholder message *)

\* The deltas passed: every string over two characters, up to two long.
AppendDeltas ==
    {<<>>} \cup {<<x>> : x \in {"a", "b"}} \cup {<<x, y>> : x, y \in {"a", "b"}}

InitAppend ==
    /\ conversation = ConversationInit
    /\ messages = <<AssistantDoc("c1", <<>>, "typing")>>
    /\ submissions = [s \in SubmissionIds |-> SubmissionIdle]
    /\ jobs = [j \in JobIds |-> JobNone]
    /\ titleJobs = 0
    /\ now = 1
    /\ strictArgs \in BOOLEAN
    /\ QuietIndex
    /\ QuietDrivers
    /\ QuietForm

AppendCall ==
    /\ calls < MaxAppendCalls
    /\ \E delta \in AppendDeltas :
          /\ messages' = AppendMessageContent(messages, 1, delta)
          /\ fed' = fed \o delta
    /\ calls' = calls + 1
    /\ UNCHANGED <<conversation, submissions, jobs, titleJobs, now, strictArgs>>
    /\ UNCHANGED <<indexVars, formVars>>

NextAppend == AppendCall

SpecAppend == InitAppend /\ [][NextAppend]_vars

-----------------------------------------------------------------------------
(* The file citation index driven by its mutations and queries *)

\* The stored files uploaded: a name with the storage id of its blob.
Uploads == {<<"a.pdf", "s1">>, <<"b.pdf", "s2">>}

\* The first-use contexts passed: the conversation and the message, each optional.
Contexts == {<<None, NoMessage>>, <<"c1", 1>>, <<"c1", NoMessage>>, <<"c2", 1>>}

FileMappingArgs ==
    {[openaiFileId |-> f, fileName |-> up[1], storageId |-> up[2], uploadedBy |-> u,
      firstUsedInConversationId |-> cx[1], firstUsedInMessageId |-> cx[2]] :
        f \in OpenaiFileIds, up \in Uploads, u \in Users, cx \in Contexts}

\* The fileMappings arrays of the batches: one file, or two with the same id.
BatchFile(f, up) == [openaiFileId |-> f, fileName |-> up[1], storageId |-> up[2]]
Batches ==
    {<<BatchFile(f, up)>> : f \in OpenaiFileIds, up \in Uploads}
    \cup {<<BatchFile(f, <<"a.pdf", "s1">>), BatchFile(f, <<"b.pdf", "s2">>)>> :
              f \in OpenaiFileIds}

IndexUnchanged ==
    UNCHANGED <<messages, submissions, jobs, titleJobs, now, strictArgs>>
    /\ UNCHANGED <<driverVars, formVars>>

\* lastCall keeps, of a createUserFileMapping call, the file id, the uploader
\* passed and whether the table held an entry for the id when it was made.
IndexCreateUserFileMapping ==
    /\ \E args \in FileMappingArgs :
          /\ fileMessageMappings' = CreateUserFileMapping(fileMessageMappings, args)
          /\ lastCall' = [op |-> "createUserFileMapping",
                          openaiFileId |-> args.openaiFileId,
                          uploadedBy |-> args.uploadedBy,
                          existed |-> MappingsOf(fileMessageMappings, args.openaiFileId) # {}]
    /\ UNCHANGED conversation
    /\ IndexUnchanged

IndexCreateUserFileMappings ==
    /\ \E uploadedBy \in Users, cx \in Contexts, fileMappings \in Batches :
          fileMessageMappings' =
              CreateUserFileMappings(fileMessageMappings, uploadedBy, cx[1], cx[2],
                                     fileMappings)
    /\ lastCall' = [op |-> "createUserFileMappings"]
    /\ UNCHANGED conversation
    /\ IndexUnchanged

IndexFindFileByOpenAIId ==
    /\ \E user \in Users, f \in OpenaiFileIds :
          lastCall' = [op |-> "findFileByOpenAIId", user |-> user,
                       conversationId |-> None, openaiFileId |-> f,
                       outcome |-> FindFileByOpenAIId(fileMessageMappings, user, f)]
    /\ UNCHANGED <<conversation, fileMessageMappings>>
    /\ IndexUnchanged

IndexFindUserMessageByFileId ==
    /\ \E user \in Users, c \in ConversationIds, f \in OpenaiFileIds :
          lastCall' = [op |-> "findUserMessageByFileId", user |-> user,
                       conversationId |-> c, openaiFileId |-> f,
                       outcome |-> FindUserMessageByFileIdImpl(
                                       conversation, fileMessageMappings, user, c, f)]
    /\ UNCHANGED <<conversation, fileMessageMappings>>
    /\ IndexUnchanged

IndexDeleteConversation ==
    /\ conversation.exists
    /\ conversation' = NoDoc
    /\ messages' = DeletedMessages(messages, "c1")
    /\ lastCall' = NoCall
    /\ UNCHANGED <<submissions, jobs, titleJobs, now, strictArgs, fileMessageMappings>>
    /\ UNCHANGED <<driverVars, formVars>>

NextIndex ==
    \/ IndexCreateUserFileMapping
    \/ IndexCreateUserFileMappings
    \/ IndexFindFileByOpenAIId
    \/ IndexFindUserMessageByFileId
    \/ IndexDeleteConversation

\* No operation of the index passes an undeclared field: one platform suffices.
InitIndex == Init /\ ~strictArgs

SpecIndex == InitIndex /\ [][NextIndex]_vars

-----------------------------------------------------------------------------
(* The operations that take a conversation id, by what they report *)

\* getConversation({conversationId, userId}): null for no document, "Not found"
\* for a document of another user when userId is passed.
GetConversation(conv, conversationId, userId) ==
    LET c == GetConversationDoc(conv, conversationId) IN
    IF ~c.exists THEN Null
    ELSE IF userId # None /\ c.userId # userId THEN Raised("Not found")
    ELSE Returned(c)

\* listMessages({conversationId}) called by user
ListMessages(conv, msgs, user, conversationId) ==
    LET c == GetConversationDoc(conv, conversationId) IN
    IF ~c.exists \/ c.userId # user THEN Raised("Not found")
    ELSE Returned(MessagesOf(msgs, conversationId))

\* getConversationModelSettings({conversationId}) called by user: the model of
\* the newest user message, null if there is none.
GetConversationModelSettings(conv, msgs, user, conversationId) ==
    LET c == GetConversationDoc(conv, conversationId) IN
    IF ~c.exists \/ c.userId # user THEN Raised("Not found")
    ELSE LET last == LastUserMessage(msgs, conversationId) IN
         Returned(IF last = 0 THEN None ELSE msgs[last].model)

\* deleteConversation({conversationId}) called by user: what the call reports.
DeleteConversationOutcome(conv, user, conversationId) ==
    LET c == GetConversationDoc(conv, conversationId) IN
    IF ~c.exists \/ c.userId # user
    THEN Raised("Conversation not found or access denied")
    ELSE Null

\* sendMessage called by user: what its conversation check reports (Null: passed).
SendMessageConversationCheck(conv, user, conversationId) ==
    LET got == GetConversation(conv, conversationId, user) IN
    IF got.kind = "error" THEN got
    ELSE IF got = Null \/ got.value.userId # user
    THEN Raised("Conversation not found or access denied")
    ELSE Null

\* getFileForPreview({messageId, fileName}) called by user, up to the lookup of
\* the file in message.uploadedFiles, which no message of the model carries.
GetFileForPreview(conv, msgs, user, messageId) ==
    IF ~MessageExists(msgs, messageId) THEN Raised("Message not found")
    ELSE LET got == GetConversation(conv, msgs[messageId].conversationId, user) IN
         IF got.kind = "error" THEN got
         ELSE IF got = Null \/ got.value.userId # user
         THEN Raised("Access denied: conversation does not belong to user")
         ELSE Raised("File not found in message")

\* The operations by name: what op reports to user for conversation c1, its
\* first message or file f1.
AccessOps ==
    {"listMessages", "getConversationModelSettings", "deleteConversation",
     "sendMessage", "findUserMessageByFileId", "getFileForPreview"}

AccessOutcome(op, conv, msgs, table, user) ==
    CASE op = "listMessages" -> ListMessages(conv, msgs, user, "c1")
      [] op = "getConversationModelSettings" ->
             GetConversationModelSettings(conv, msgs, user, "c1")
      [] op = "deleteConversation" -> DeleteConversationOutcome(conv, user, "c1")
      [] op = "sendMessage" -> SendMessageConversationCheck(conv, user, "c1")
      [] op = "findUserMessageByFileId" ->
             FindUserMessageByFileIdImpl(conv, table, user, "c1", "f1")
      [] OTHER -> GetFileForPreview(conv, msgs, user, 1)

\* storeUserMessage({conversationId: c1, ...}) on its own: the patch of the
\* conversation raises when it was deleted, and nothing is inserted.
AccessStoreUserMessage ==
    /\ Len(messages) < MaxSubmissions
    /\ conversation.exists
    /\ \E args \in ConcurrentArgs : messages' = Append(messages, UserDoc("c1", args))
    /\ conversation' = [conversation EXCEPT !.updatedTime = now]
    /\ now' = now + 1
    /\ lastCall' = NoCall
    /\ UNCHANGED <<submissions, jobs, titleJobs, strictArgs, fileMessageMappings>>
    /\ UNCHANGED <<driverVars, formVars>>

\* createUserFileMapping for file f1, by either user, first used in message 1 of c1.
AccessCreateUserFileMapping ==
    /\ \E user \in Users :
          fileMessageMappings' =
              CreateUserFileMapping(fileMessageMappings,
                  [openaiFileId |-> "f1", fileName |-> "a.pdf", storageId |-> "s1",
                   uploadedBy |-> user, firstUsedInConversationId |-> "c1",
                   firstUsedInMessageId |-> 1])
    /\ lastCall' = NoCall
    /\ UNCHANGED <<conversation, messages, submissions, jobs, titleJobs, now, strictArgs>>
    /\ UNCHANGED <<driverVars, formVars>>

\* One of the operations is called by a user; deleteConversation, when it
\* passes its check, deletes.
AccessCall ==
    /\ \E op \in AccessOps, user \in Users :
          LET outcome == AccessOutcome(op, conversation, messages,
                                       fileMessageMappings, user)
              deletes == op = "deleteConversation" /\ outcome = Null
          IN  /\ lastCall' = [op |-> op, user |-> user, conversationId |-> "c1",
                              openaiFileId |-> "f1", outcome |-> outcome]
              /\ conversation' = IF deletes THEN NoDoc ELSE conversation
              /\ messages' = IF deletes THEN DeletedMessages(messages, "c1") ELSE messages
    /\ UNCHANGED <<submissions, jobs, titleJobs, now, strictArgs, fileMessageMappings>>
    /\ UNCHANGED <<driverVars, formVars>>

NextAccess ==
    \/ AccessStoreUserMessage
    \/ AccessCall
    \/ AccessCreateUserFileMapping
    \/ IndexFindFileByOpenAIId

SpecAccess == InitIndex /\ [][NextAccess]_vars


-----------------------------------------------------------------------------
(* The chat form: file selection and handleSubmit (components/chat/ChatSidebar.tsx) *)

SelectedFileState(uuid, status, storageId) ==
    [uuid |-> uuid, status |-> status, convexStorageId |-> storageId]

StorageIdOf(uuid) == "s" \o ToString(uuid)

MapFiles(files, f(_)) == [i \in DOMAIN files |-> f(files[i])]

IsUploadingFiles(files) == \E i \in DOMAIN files : files[i].status = "uploading"

\* filesForAction: the storage ids of the files that are uploaded.
FilesForAction(files) ==
    LET kept == SelectSeq(files,
                   LAMBDA sf : sf.status = "uploaded" /\ sf.convexStorageId # None)
    IN  [i \in DOMAIN kept |-> kept[i].convexStorageId]

\* What handleSubmit does with the typed content and the selection, a
\* conversation being selected: the toast it shows or the action it calls.
HandleSubmitCall(content, files) ==
    LET statuses == [i \in DOMAIN files |-> files[i].status] IN
    IF Trim(content) = <<>>
    THEN [op |-> "toast", statuses |-> statuses, uploadedConvexFiles |-> <<>>,
          settled |-> TRUE]
    ELSE IF IsUploadingFiles(files)
    THEN [op |-> "toast", statuses |-> statuses, uploadedConvexFiles |-> <<>>,
          settled |-> TRUE]
    ELSE IF Len(FilesForAction(files)) > 0
    THEN [op |-> "uploadFileAndSendMessage", statuses |-> statuses,
          uploadedConvexFiles |-> FilesForAction(files), settled |-> FALSE]
    ELSE [op |-> "sendMessage", statuses |-> statuses,
          uploadedConvexFiles |-> <<>>, settled |-> FALSE]

FormContents == {<<"h">>, <<" ">>}

FormUnchanged == UNCHANGED <<turnVars, indexVars, driverVars>>

\* handleFileChange up to the first await of each upload: n valid files are
\* appended as 'pending' and, in the same synchronous run, set to 'uploading'.
HandleFileChange ==
    \E n \in 1..MAX_FILES :
        /\ uuids + n <= MaxPicked
        /\ Len(selectedFiles) + n <= MAX_FILES
        /\ LET newFileStates ==
                  [i \in 1..n |-> SelectedFileState(uuids + i, "pending", None)]
               appended == selectedFiles \o newFileStates
               new == {uuids + i : i \in 1..n}
           IN  /\ selectedFiles' =
                     MapFiles(appended,
                        LAMBDA f : IF f.uuid \in new
                                   THEN [f EXCEPT !.status = "uploading"] ELSE f)
               /\ uploads' = uploads \cup new
        /\ uuids' = uuids + n
        /\ UNCHANGED lastSubmit
        /\ FormUnchanged

\* The upload of file u resolves: fetch returned and the body parsed as JSON.
\* The response status is not tested, so the storageId read from the body is
\* the storage id of a successful upload or, for an error body, undefined.
UploadResolves ==
    \E u \in uploads : \E storageId \in {StorageIdOf(u), None} :
        /\ selectedFiles' =
              MapFiles(selectedFiles,
                 LAMBDA f : IF f.uuid = u /\ f.status = "uploading"
                            THEN [f EXCEPT !.status = "uploaded",
                                           !.convexStorageId = storageId]
                            ELSE f)
        /\ uploads' = uploads \ {u}
        /\ UNCHANGED <<uuids, lastSubmit>>
        /\ FormUnchanged

\* The upload of file u raises.
UploadRejects ==
    \E u \in uploads :
        /\ selectedFiles' =
              MapFiles(selectedFiles,
                 LAMBDA f : IF f.uuid = u /\ f.status = "uploading"
                            THEN [f EXCEPT !.status = "error"] ELSE f)
        /\ uploads' = uploads \ {u}
        /\ UNCHANGED <<uuids, lastSubmit>>
        /\ FormUnchanged

RemoveSelectedFile ==
    \E k \in DOMAIN selectedFiles :
        /\ selectedFiles' =
              SelectSeq(selectedFiles, LAMBDA f : f.uuid # selectedFiles[k].uuid)
        /\ UNCHANGED <<uploads, uuids, lastSubmit>>
        /\ FormUnchanged

\* handleSubmit up to the await of the action it calls.
HandleSubmit ==
    \E content \in FormContents :
        /\ lastSubmit.settled
        /\ lastSubmit' = HandleSubmitCall(content, selectedFiles)
        /\ UNCHANGED <<selectedFiles, uploads, uuids>>
        /\ FormUnchanged

\* The action called by handleSubmit resolves: the selection is cleared.
HandleSubmitResolves ==
    /\ ~lastSubmit.settled
    /\ selectedFiles' = <<>>
    /\ lastSubmit' = [lastSubmit EXCEPT !.settled = TRUE]
    /\ UNCHANGED <<uploads, uuids>>
    /\ FormUnchanged

\* The action called by handleSubmit raises: only a toast is shown.
HandleSubmitRejects ==
    /\ ~lastSubmit.settled
    /\ lastSubmit' = [lastSubmit EXCEPT !.settled = TRUE]
    /\ UNCHANGED <<selectedFiles, uploads, uuids>>
    /\ FormUnchanged

NextForm ==
    \/ HandleFileChange
    \/ UploadResolves
    \/ UploadRejects
    \/ RemoveSelectedFile
    \/ HandleSubmit
    \/ HandleSubmitResolves
    \/ HandleSubmitRejects

SpecForm == InitIndex /\ [][NextForm]_vars

-----------------------------------------------------------------------------
(* uploadFileAndSendMessage: an action, one step per awaited write *)

\* What happens to one supplied file in the upload loop: it is uploaded and
\* indexed, uploaded but adding it to the vector store raises, or it is skipped
\* (unsupported extension, not in storage, too large, files.create raises).
FileOutcomes ==
    {"uploaded", "notIndexed", "unsupported", "notFound", "tooLarge", "uploadFailed"}

FileOutcomeLists ==
    UNION {[1..n -> FileOutcomes] : n \in 1..MAX_FILES}

\* The conversation has a vector store, or one is created, or creating it raises.
VectorStores == {"exists", "created", "failed"}

\* The entries one file adds to errors.
ErrorsOfFile(vectorStore, outcome) ==
    CASE outcome = "uploaded" -> IF vectorStore = "failed" THEN 1 ELSE 0
      [] outcome = "notIndexed" -> 1
      [] OTHER -> 1

RECURSIVE SumErrors(_, _)
SumErrors(vectorStore, files) ==
    IF files = <<>> THEN 0
    ELSE ErrorsOfFile(vectorStore, Head(files)) + SumErrors(vectorStore, Tail(files))

\* errors.length after the upload loop.
UploadErrors(vectorStore, files) ==
    (IF vectorStore = "failed" THEN 1 ELSE 0) + SumErrors(vectorStore, files)

\* uploadedOpenAIFileIds after the upload loop: the k-th supplied file gets
\* the OpenAI id "f" \o k.
UploadedOpenAIFileIds(files) ==
    LET ks == SelectSeq([k \in 1..Len(files) |-> k],
                        LAMBDA k : files[k] \in {"uploaded", "notIndexed"})
    IN  [i \in 1..Len(ks) |-> "f" \o ToString(ks[i])]

\* The all-files-failed check raises.
AllFilesFailed(vectorStore, files) ==
    /\ Len(UploadedOpenAIFileIds(files)) = 0
    /\ Len(files) > 0
    /\ UploadErrors(vectorStore, files) = Len(files)

\* Everything up to the all-files-failed check: the validation of the
\* arguments, the vector store, the upload loop and the check.
UploadStart ==
    /\ submissions[1].pc = "idle"
    /\ \E user \in Users, args \in ConcurrentArgs,
          vectorStore \in VectorStores, files \in FileOutcomeLists :
          submissions' = [submissions EXCEPT ![1] =
              [pc |-> IF /\ SendMessageAccepts(conversation, user, args)
                         /\ args.openaiApiKey
                         /\ ~AllFilesFailed(vectorStore, files)
                      THEN "getFirstMessage" ELSE "raised",
               user |-> user, args |-> args, isFirstMessage |-> FALSE,
               userMessageId |-> NoMessage,
               vectorStore |-> vectorStore, files |-> files,
               fileIds |-> UploadedOpenAIFileIds(files)]]
    /\ UNCHANGED <<conversation, messages, jobs, titleJobs, now, strictArgs>>
    /\ UNCHANGED <<indexVars, driverVars, formVars>>

\* storeUserMessageWithVectorStore: insert, then patch the conversation.
UploadStoreUserMessage ==
    /\ submissions[1].pc = "storeUserMessage"
    /\ "files" \in DOMAIN submissions[1]
    /\ IF conversation.exists
       THEN /\ messages' = Append(messages,
                   [UserDoc("c1", submissions[1].args) EXCEPT
                       !.fileIds = Len(submissions[1].fileIds)])
            /\ conversation' = [conversation EXCEPT !.updatedTime = now]
            /\ now' = now + 1
            /\ submissions' = [submissions EXCEPT
                  ![1].pc = IF submissions[1].fileIds # <<>>
                            THEN "createUserFileMappings" ELSE "schedule",
                  ![1].userMessageId = Len(messages) + 1]
       ELSE /\ submissions' = [submissions EXCEPT ![1].pc = "raised"]
            /\ UNCHANGED <<messages, conversation, now>>
    /\ UNCHANGED <<jobs, titleJobs, strictArgs>>
    /\ UNCHANGED <<indexVars, driverVars, formVars>>

\* createUserFileMappings for the files uploaded.
UploadCreateUserFileMappings ==
    /\ submissions[1].pc = "createUserFileMappings"
    /\ fileMessageMappings' =
          CreateUserFileMappings(fileMessageMappings, submissions[1].user, "c1",
              submissions[1].userMessageId,
              [i \in 1..Len(submissions[1].fileIds) |->
                  [openaiFileId |-> submissions[1].fileIds[i],
                   fileName |-> "a.pdf", storageId |-> "s1"]])
    /\ submissions' = [submissions EXCEPT ![1].pc = "schedule"]
    /\ UNCHANGED <<conversation, messages, jobs, titleJobs, now, strictArgs>>
    /\ UNCHANGED <<lastCall, driverVars, formVars>>

\* runAfter(0, generateAiResponse) and, for a first message with text,
\* runAfter(5000, generateConversationTitleAction).
UploadSchedule ==
    /\ submissions[1].pc = "schedule"
    /\ jobs' = [jobs EXCEPT ![1] =
          [JobNone EXCEPT !.pc = "getConversation",
                          !.openaiApiKey = submissions[1].args.openaiApiKey,
                          !.openrouterApiKey = submissions[1].args.openrouterApiKey]]
    /\ titleJobs' = IF /\ submissions[1].isFirstMessage
                       /\ Trim(submissions[1].args.content) # <<>>
                    THEN titleJobs + 1 ELSE titleJobs
    /\ submissions' = [submissions EXCEPT ![1].pc = "done"]
    /\ UNCHANGED <<conversation, messages, now, strictArgs>>
    /\ UNCHANGED <<indexVars, driverVars, formVars>>

NextUpload ==
    \/ UploadStart
    \/ SendMessageGetFirstMessage(1)
    \/ UploadStoreUserMessage
    \/ UploadCreateUserFileMappings
    \/ UploadSchedule
    \/ DeleteConversation

SpecUpload == InitIndex /\ [][NextUpload]_vars

-----------------------------------------------------------------------------
(* Properties *)

\* The run of generateAiResponse for job j has ended: it returned or it raised.
TurnFinished(j) == jobs[j].pc \in {"returned", "raised"}

\* The assistant messages of conversation c.
AssistantMessages(msgs, c) == {i \in MessagesOf(msgs, c) : msgs[i].author = "assistant"}

\* The messages of conversation c with status "typing".
TypingMessages(msgs, c) == {i \in AssistantMessages(msgs, c) : msgs[i].status = "typing"}

\* C1 (one-typing invariant): under any interleaving of the submissions on one
\* conversation and the generateAiResponse jobs they schedule, at most one
\* message of the conversation has status "typing" in every reachable state.
C1_OneTyping == Cardinality(TypingMessages(messages, "c1")) <= 1

\* C2 (continuation token write timing): once a turn has ended with an
\* assistant message of it in status "error", the conversation's lastResponseId
\* equals the value it had before the turn (the value the turn read).
C2_TokenUnchangedOnError ==
    \A j \in JobIds :
        (/\ TurnFinished(j)
         /\ conversation.exists
         /\ \E i \in AssistantMessages(messages, "c1") : messages[i].status = "error")
        => conversation.lastResponseId = jobs[j].lastResponseId

\* C3 (error fallback): in every provider branch, a turn whose stream delivered
\* no content, or whitespace only, and ended cleanly finishes with its
\* assistant message in status "error".
C3_EmptyStreamEndsError ==
    \A j \in JobIds :
        (/\ TurnFinished(j)
         /\ jobs[j].cleanEnd
         /\ Trim(jobs[j].streamed) = <<>>
         /\ MessageExists(messages, jobs[j].aiMessageId))
        => messages[jobs[j].aiMessageId].status = "error"

\* C4 (append monotonicity): after any sequence of appendMessageContent calls
\* on one existing message that starts empty, the stored content is the first
\* MAX_MESSAGE_SIZE characters of the concatenation of the deltas in call
\* order: the overflowing call appends the prefix that fits, later calls
\* change nothing, and no call raises.
C4_AppendIsCappedConcatenation ==
    /\ MessageExists(messages, 1)
    /\ messages[1].content =
          SubSeq(fed, 1, IF Len(fed) <= MAX_MESSAGE_SIZE THEN Len(fed) ELSE MAX_MESSAGE_SIZE)

\* C4, its case: deltas were fed past the cap, the last of them in part.
C4_Witness_Overflowed ==
    /\ calls >= 2
    /\ Len(fed) > MAX_MESSAGE_SIZE
    /\ Len(messages[1].content) = MAX_MESSAGE_SIZE
    /\ messages[1].content = <<"a", "b", "a">>

\* C5 (typing is transient): once the turn has ended, for every finite stream
\* the provider can deliver, the assistant message the turn created with
\* status "typing" has status "completed" or "error", unless it was deleted.
C5_NoTypingAfterTurn ==
    \A j \in JobIds :
        (TurnFinished(j) /\ MessageExists(messages, jobs[j].aiMessageId))
        => messages[jobs[j].aiMessageId].status \in {"completed", "error"}

\* C6 (finalized exactly once): over the whole turn exactly one finalization
\* (markMessageComplete or markMessageError) takes effect on the turn's assistant
\* message, and once the status of a message is "completed" or "error" it never
\* changes again; in particular no message goes typing -> completed -> error.
C6_FinalizedExactlyOnce ==
    /\ [](\A j \in JobIds :
            (TurnFinished(j) /\ MessageExists(messages, jobs[j].aiMessageId))
            => jobs[j].completions + jobs[j].failures = 1)
    /\ [][\A i \in 1..Len(messages) :
             (/\ messages[i].exists
              /\ messages[i].status \in {"completed", "error"}
              /\ i <= Len(messages')
              /\ messages'[i].exists)
             => messages'[i].status = messages[i].status]_vars

\* The dedup key of an annotation and of a citation; the name an annotation gives.
AnnotationKey(a) == <<a.type, a.ref>>
CitationKey(c) ==
    IF c.type = "file" THEN <<"file_citation", c.fileId>> ELSE <<"url_citation", c.url>>
CitationLabel(c) == IF c.type = "file" THEN c.fileName ELSE c.title
AnnotationLabel(a) ==
    IF a.label # None THEN a.label
    ELSE IF a.type = "file_citation" THEN "unknown" ELSE "Web Result"

\* Position i is the first occurrence of its key in the annotations S.
IsFirstOccurrence(S, i) ==
    \A h \in 1..(i - 1) : AnnotationKey(S[h]) # AnnotationKey(S[i])

\* L lists the keys of S once each, in order of first occurrence, each with the
\* name its first occurrence gave.
IsFirstSeenDedup(L, S) ==
    /\ \A i \in 1..Len(S) : \E n \in 1..Len(L) : CitationKey(L[n]) = AnnotationKey(S[i])
    /\ \A n, m \in 1..Len(L) : CitationKey(L[n]) = CitationKey(L[m]) => n = m
    /\ \A n \in 1..Len(L) : \E i \in 1..Len(S) :
          /\ IsFirstOccurrence(S, i)
          /\ AnnotationKey(S[i]) = CitationKey(L[n])
          /\ AnnotationLabel(S[i]) = CitationLabel(L[n])
    /\ \A n, m \in 1..Len(L) : n < m =>
          \E i, k \in 1..Len(S) :
              /\ i < k
              /\ IsFirstOccurrence(S, i) /\ AnnotationKey(S[i]) = CitationKey(L[n])
              /\ IsFirstOccurrence(S, k) /\ AnnotationKey(S[k]) = CitationKey(L[m])

\* C7 (citation dedup, first-seen order): for the annotations fed during one
\* stream of the Responses API (those of output_text.done events, then those of
\* the completion event), the citation list attached at completion holds one
\* entry per distinct key seen, in order of first occurrence, each with the
\* filename or title of its first occurrence; later duplicates are dropped.
C7_CitationsFirstSeen ==
    \A j \in JobIds :
        (/\ Branch(jobs[j]) = "openai"
         /\ jobs[j].completions > 0
         /\ MessageExists(messages, jobs[j].aiMessageId))
        => IsFirstSeenDedup(messages[jobs[j].aiMessageId].citations, jobs[j].seen)

\* C7, its case: a completed message whose completion event repeated, under
\* another filename, a file cited mid-stream, and added a url.
C7_Witness_DuplicateDropped ==
    \E j \in JobIds :
        /\ Branch(jobs[j]) = "openai"
        /\ jobs[j].completions > 0
        /\ MessageExists(messages, jobs[j].aiMessageId)
        /\ messages[jobs[j].aiMessageId].status = "completed"
        /\ jobs[j].seen = <<FileAnnotation("f1", "a.pdf"),
                            FileAnnotation("f1", "renamed.pdf"), UrlAnnotation("w1", None)>>
        /\ messages[jobs[j].aiMessageId].citations =
              <<FileCitation("f1", "a.pdf"), UrlCitation("w1", "Web Result")>>

\* The table holds at most one entry per openaiFileId.
OneEntryPerFileId(table) ==
    \A i, k \in 1..Len(table) : table[i].openaiFileId = table[k].openaiFileId => i = k

\* C8 (idempotent file recording): after any sequence of createUserFileMapping
\* and createUserFileMappings calls the table holds at most one entry per
\* openaiFileId, and no call changes an entry that exists (uploader, storageId,
\* fileName, first-use conversation and message).
C8_IdempotentRecording ==
    /\ []OneEntryPerFileId(fileMessageMappings)
    /\ [][\A i \in 1..Len(fileMessageMappings) :
             /\ i <= Len(fileMessageMappings')
             /\ fileMessageMappings'[i] = fileMessageMappings[i]]_vars

\* C8, its case: createUserFileMapping has been called, by another uploader,
\* for a file id that had an entry.
C8_Witness_SecondRecording ==
    /\ lastCall.op = "createUserFileMapping"
    /\ lastCall.existed
    /\ \E i \in MappingsOf(fileMessageMappings, lastCall.openaiFileId) :
          fileMessageMappings[i].uploadedBy # lastCall.uploadedBy

\* C9 (access scoping): findUserMessageByFileId called on a conversation the
\* caller owns returns null, without raising, when no entry exists for the
\* file id, and when the caller uploaded the file and the entry's
\* firstUsedInConversationId is set to another conversation than the one queried.
C9_NullOutsideFirstConversation ==
    (/\ lastCall.op = "findUserMessageByFileId"
     /\ GetConversationDoc(conversation, lastCall.conversationId).exists
     /\ GetConversationDoc(conversation, lastCall.conversationId).userId = lastCall.user)
    => LET found == MappingsOf(fileMessageMappings, lastCall.openaiFileId) IN
       /\ found = {} => lastCall.outcome = Null
       /\ \A i \in found :
             (/\ fileMessageMappings[i].uploadedBy = lastCall.user
              /\ fileMessageMappings[i].firstUsedInConversationId # None
              /\ fileMessageMappings[i].firstUsedInConversationId # lastCall.conversationId)
             => lastCall.outcome = Null

\* C9, its case: the uploader queried a conversation of theirs for a file first
\* used, in a message, in another conversation of theirs.
C9_Witness_OtherConversation ==
    /\ lastCall.op = "findUserMessageByFileId"
    /\ lastCall.conversationId = "c1"
    /\ conversation.exists
    /\ lastCall.user = ConversationOwner("c1")
    /\ \E i \in MappingsOf(fileMessageMappings, lastCall.openaiFileId) :
          /\ fileMessageMappings[i].uploadedBy = lastCall.user
          /\ fileMessageMappings[i].firstUsedInConversationId = "c2"
          /\ fileMessageMappings[i].firstUsedInMessageId # NoMessage
    /\ lastCall.outcome = Null

\* C10 (resolve): findFileByOpenAIId returns null, without raising, if no entry
\* exists for the file id, fails with an access-denied error if the entry's
\* uploadedBy differs from the requesting user, and otherwise returns the entry.
C10_FindFileByOpenAIId ==
    lastCall.op = "findFileByOpenAIId"
    => LET found == MappingsOf(fileMessageMappings, lastCall.openaiFileId) IN
       /\ found = {} => lastCall.outcome = Null
       /\ \A i \in found :
             IF fileMessageMappings[i].uploadedBy # lastCall.user
             THEN /\ lastCall.outcome.kind = "error"
                  /\ lastCall.outcome.message =
                        "Access denied: file was not uploaded by current user"
             ELSE /\ lastCall.outcome.kind = "value"
                  /\ \A field \in DOMAIN lastCall.outcome.value :
                        lastCall.outcome.value[field] = fileMessageMappings[i][field]
                  /\ {"fileName", "storageId", "uploadedBy", "firstUsedInConversationId",
                      "firstUsedInMessageId"} \subseteq DOMAIN lastCall.outcome.value

\* C10, its case: a user asked for a file another user uploaded.
C10_Witness_Denied ==
    /\ lastCall.op = "findFileByOpenAIId"
    /\ \E i \in MappingsOf(fileMessageMappings, lastCall.openaiFileId) :
          fileMessageMappings[i].uploadedBy # lastCall.user
    /\ lastCall.outcome.kind = "error"

\* C11 (ownership boundary of the citation index): neither lookup returns a
\* non-null result for an entry whose uploadedBy differs from the requesting
\* user, findUserMessageByFileId returns none for a conversation the requester
\* does not own, and for an entry uploaded by another user that is not scoped
\* to a different conversation findUserMessageByFileId raises access denied.
C11_OwnershipBoundary ==
    LET found == IF lastCall.op \in {"findFileByOpenAIId", "findUserMessageByFileId"}
                 THEN MappingsOf(fileMessageMappings, lastCall.openaiFileId) ELSE {}
    IN
    /\ lastCall.op \in {"findFileByOpenAIId", "findUserMessageByFileId"}
       => (lastCall.outcome.kind = "value"
           => \A i \in found : fileMessageMappings[i].uploadedBy = lastCall.user)
    /\ lastCall.op = "findUserMessageByFileId"
       => LET c == GetConversationDoc(conversation, lastCall.conversationId)
              owned == c.exists /\ c.userId = lastCall.user
          IN  /\ ~owned => lastCall.outcome.kind = "error"
              /\ \A i \in found :
                    (/\ owned
                     /\ fileMessageMappings[i].uploadedBy # lastCall.user
                     /\ fileMessageMappings[i].firstUsedInConversationId
                            \in {None, lastCall.conversationId})
                    => lastCall.outcome =
                          Raised("Access denied: file was not uploaded by current user")

\* C11, its case: the owner of a conversation asked for the message of a file
\* that another user recorded with that conversation and a message.
C11_Witness_ForeignFile ==
    /\ lastCall.op = "findUserMessageByFileId"
    /\ lastCall.conversationId = "c1"
    /\ conversation.exists
    /\ lastCall.user = ConversationOwner("c1")
    /\ \E i \in MappingsOf(fileMessageMappings, lastCall.openaiFileId) :
          /\ fileMessageMappings[i].uploadedBy # lastCall.user
          /\ fileMessageMappings[i].firstUsedInConversationId = "c1"
          /\ fileMessageMappings[i].firstUsedInMessageId # NoMessage
    /\ lastCall.outcome.kind = "error"

\* C12 (access violation is distinguishable from not-found): what an operation
\* reports to a user for a conversation of another user differs from what it
\* reports to that user when the conversation does not exist; and what
\* findFileByOpenAIId reports for a file of another user differs from what it
\* reports when no entry exists.
C12_DeniedDiffersFromNotFound ==
    /\ (/\ lastCall.op \in AccessOps
        /\ conversation.exists
        /\ conversation.userId # lastCall.user)
       => lastCall.outcome #
              AccessOutcome(lastCall.op, NoDoc, DeletedMessages(messages, "c1"),
                            fileMessageMappings, lastCall.user)
    /\ (/\ lastCall.op = "findFileByOpenAIId"
        /\ \E i \in MappingsOf(fileMessageMappings, lastCall.openaiFileId) :
              fileMessageMappings[i].uploadedBy # lastCall.user)
       => lastCall.outcome # FindFileByOpenAIId(<<>>, lastCall.user, lastCall.openaiFileId)

\* The positions of a turn whose next step calls appendMessageContent,
\* updateReasoningSummary, markMessageComplete, markMessageError or
\* updateConversationResponseId, and no other mutation.
LostRacePositions ==
    {"stream", "updateConversationResponseId", "markComplete", "citationCall",
     "markEmpty", "innerCatch", "innerCatchMark"}

\* C13 (lost-race safety): once deleteConversation has run while a turn is in
\* flight, every later appendMessageContent, updateReasoningSummary,
\* markMessageComplete, markMessageError and updateConversationResponseId call
\* of the turn returns without raising and leaves the store unchanged.
C13_LostRaceNoOps ==
    [][\A j \in JobIds :
          (/\ ~conversation.exists
           /\ jobs[j].pc \in LostRacePositions
           /\ jobs'[j] # jobs[j])
          => /\ messages' = messages
             /\ conversation' = conversation
             /\ jobs[j].pc \in {"markEmpty", "innerCatchMark"}
                => jobs'[j].pc = "returned"]_vars

\* C14 (every failure surfaces as an error message): every generateAiResponse
\* run on an existing conversation ends without raising, and leaves an
\* assistant message with status "completed" or one with status "error":
\* also when the conversation has no user message or the last user message
\* has empty text and no files.
C14_FailureSurfaces ==
    \A j \in JobIds :
        (TurnFinished(j) /\ conversation.exists)
        => /\ jobs[j].pc = "returned"
           /\ \E i \in AssistantMessages(messages, "c1") :
                 messages[i].status \in {"completed", "error"}

\* C15 (delete cascades to messages): after deleteConversation succeeds the
\* conversation no longer exists and no message with its conversationId that
\* existed at the time of the call remains.
C15_DeleteCascadesToMessages ==
    [][(conversation.exists /\ ~conversation'.exists)
       => \A i \in 1..Len(messages) :
             (messages[i].exists /\ messages[i].conversationId = "c1")
             => (i <= Len(messages') /\ ~messages'[i].exists)]_vars

\* C15, its case: the conversation was deleted while it held the user's
\* message and the assistant's.
C15_Witness_Deleted ==
    /\ ~conversation.exists
    /\ Len(messages) >= 2
    /\ \A i \in 1..Len(messages) : ~messages[i].exists

\* C16 (delete cascades to the citation index): after deleteConversation
\* succeeds no fileMessageMappings entry whose firstUsedInConversationId is the
\* deleted conversation remains.
C16_DeleteCascadesToIndex ==
    ~conversation.exists
    => \A i \in 1..Len(fileMessageMappings) :
          fileMessageMappings[i].firstUsedInConversationId # "c1"

\* C17 (one-shot title generation): under any interleaving of the submissions
\* on one conversation, generateConversationTitleAction is scheduled at most
\* once for the conversation.
C17_TitleScheduledOnce == titleJobs <= 1

\* C18 (activity timestamp): every insert of a user message and every
\* completion of an assistant message (its status becoming "completed") sets
\* the conversation's updatedTime to the current time.
C18_ActivityTimestamp ==
    [][(/\ conversation'.exists
        /\ \/ /\ Len(messages') = Len(messages) + 1
              /\ messages'[Len(messages')].author = "user"
           \/ \E i \in 1..Len(messages) :
                 /\ messages[i].exists /\ messages[i].status # "completed"
                 /\ messages'[i].exists /\ messages'[i].status = "completed")
       => conversation'.updatedTime = now]_vars

\* C19 (bounded content): in every reachable state the content of every
\* message, of the user or of the assistant, is at most MAX_MESSAGE_SIZE long.
C19_BoundedContent ==
    \A i \in 1..Len(messages) :
        messages[i].exists => Len(messages[i].content) <= MAX_MESSAGE_SIZE

\* s is a prefix of t.
IsPrefix(s, t) == Len(s) <= Len(t) /\ SubSeq(t, 1, Len(s)) = s

\* C20 (monotonic reads): along every behaviour the content of a message read
\* in a later state has the content read in any earlier state as a prefix,
\* under any interleaving of readers with appends, completion and failure.
C20_MonotonicReads ==
    [][\A i \in 1..Len(messages) :
          (messages[i].exists /\ i <= Len(messages') /\ messages'[i].exists)
          => IsPrefix(messages[i].content, messages'[i].content)]_vars

\* C20, its case: a message that received a delta and then, the stream having
\* failed, the apology.
C20_Witness_AppendedTwice ==
    \E i \in AssistantMessages(messages, "c1") :
        /\ messages[i].status = "error"
        /\ Len(messages[i].content) = MAX_MESSAGE_SIZE
        /\ messages[i].content[1] = "a"
        /\ messages[i].content[2] = "S"

\* C21 (fail stores the error detail): when the turn calls markMessageError
\* with an error detail on an existing message, the call does not raise, and
\* after it the message has status "error" and its stored error detail is the
\* string passed.
C21_FailStoresErrorDetail ==
    [][\A j \in JobIds :
          (/\ jobs[j].pc \in {"markEmpty", "innerCatchMark"}
           /\ jobs'[j] # jobs[j]
           /\ MessageExists(messages, jobs[j].aiMessageId))
          => /\ jobs'[j].pc = "returned"
             /\ messages'[jobs[j].aiMessageId].status = "error"
             /\ messages'[jobs[j].aiMessageId].errorDetails =
                   ErrorDetailsPassed(jobs[j].pc)]_vars

\* C22 (turn precondition on attachments): whenever handleSubmit calls
\* sendMessage or uploadFileAndSendMessage, every file that was in
\* selectedFiles at the call had status 'uploaded'.
C22_TurnOnlyWhenAllUploaded ==
    lastSubmit.op \in {"sendMessage", "uploadFileAndSendMessage"}
    => \A i \in DOMAIN lastSubmit.statuses : lastSubmit.statuses[i] = "uploaded"

\* A sendMessage call of one of the rejected kinds: the caller does not own the
\* conversation, the model id given is not a supported one, or a thinking
\* intensity is given with a model id that is not a thinking model.
RejectedSubmission(user, args) ==
    \/ user # ConversationOwner("c1")
    \/ args.model # None /\ ~isSupportedModel(args.model)
    \/ /\ args.model # None
       /\ args.thinkingIntensity # None
       /\ ~isThinkingModel(args.model)

\* C23 (rejected submissions change nothing): a sendMessage call of a rejected
\* kind raises, and as long as every call made so far was of a rejected kind
\* no message is stored, no generateAiResponse job and no title job is
\* scheduled, and the conversation's updatedTime is the initial one.
C23_RejectedChangesNothing ==
    /\ \A s \in SubmissionIds :
          (/\ submissions[s].pc # "idle"
           /\ RejectedSubmission(submissions[s].user, submissions[s].args))
          => submissions[s].pc = "raised"
    /\ (\A s \in SubmissionIds :
          submissions[s].pc # "idle"
          => RejectedSubmission(submissions[s].user, submissions[s].args))
       => /\ messages = <<>>
          /\ \A j \in JobIds : jobs[j] = JobNone
          /\ titleJobs = 0
          /\ conversation.exists
                => conversation.updatedTime = ConversationInit.updatedTime

C23_Witness_ThinkingRejected ==
    /\ submissions[1].pc = "raised"
    /\ submissions[1].user = ConversationOwner("c1")
    /\ submissions[1].args.model = "gpt-4.1"
    /\ submissions[1].args.thinkingIntensity = "low"

\* The positions of generateAiResponse from the creation of the placeholder up
\* to the inner catch: the upstream call is being opened, streamed or finalized.
StreamingPositions ==
    {"open", "stream", "updateConversationResponseId", "markEmpty",
     "markComplete", "citationCall", "innerCatch"}

CappedAt(s) == SubSeq(s, 1, Min(Len(s), MAX_MESSAGE_SIZE))

C25_TokenOfLastCompletedTurn ==
    \A j, k \in JobIds :
        (/\ conversation.exists
         /\ jobs[j].wroteToken /\ jobs[j].openaiResponseId # ""
         /\ jobs[k].wroteToken /\ jobs[k].openaiResponseId # ""
         /\ messages[jobs[j].aiMessageId].status = "completed"
         /\ messages[jobs[k].aiMessageId].status = "completed"
         /\ k \in jobs[j].completedAfter)
        => conversation.lastResponseId = jobs[j].openaiResponseId

\* C26 (per-event errors are swallowed): in every provider branch, consuming
\* a stream event never takes the turn out of its loop into the error handler,
\* whether or not the handling of the event raised; only a failure of the
\* transport iteration does.
C26_EventErrorsSwallowed ==
    [][\A j \in JobIds :
          (jobs[j].pc = "stream" /\ jobs'[j].events = jobs[j].events + 1)
          => jobs'[j].pc # "innerCatch"]_vars

\* C27 (transport failure ends in error): when a turn that created its
\* placeholder has ended after opening the upstream call or iterating its
\* stream raised, the placeholder, if it still exists, has status "error" and
\* it is the only assistant message of the conversation.
C27_TransportFailureEndsInError ==
    \A j \in JobIds :
        (/\ TurnFinished(j)
         /\ jobs[j].aiMessageId # NoMessage
         /\ jobs[j].timezoneValid
         /\ ~jobs[j].cleanEnd
         /\ MessageExists(messages, jobs[j].aiMessageId))
        => /\ messages[jobs[j].aiMessageId].status = "error"
           /\ AssistantMessages(messages, "c1") = {jobs[j].aiMessageId}

\* C28 (failure before the placeholder): when the outer catch runs for a turn
\* that has created no placeholder, the job returns, exactly one message is
\* inserted, an assistant message of status "error", and the conversation is
\* left with no "typing" message.
C28_FailureBeforePlaceholder ==
    [][\A j \in JobIds :
          (/\ jobs[j].pc = "outerCatch"
           /\ jobs[j].aiMessageId = NoMessage
           /\ jobs'[j] # jobs[j])
          => /\ jobs'[j].pc = "returned"
             /\ Len(messages') = Len(messages) + 1
             /\ messages'[Len(messages')].author = "assistant"
             /\ messages'[Len(messages')].status = "error"
             /\ TypingMessages(messages', "c1") = {}]_vars

\* The user messages of conversation c.
UserMessages(msgs, c) == {i \in MessagesOf(msgs, c) : msgs[i].author = "user"}

\* C29 (one job per submission): in every reachable state the conversation
\* has at most as many assistant messages as user messages.
C29_AssistantsAtMostUsers ==
    Cardinality(AssistantMessages(messages, "c1"))
       <= Cardinality(UserMessages(messages, "c1"))

\* C30 (reasoning summary concatenation): once the reasoning-done event,
\* carrying the text of the reasoning deltas delivered before it, has been
\* handled, the stored reasoning summary of the turn's message is the
\* concatenation of those deltas, each piece of text once.
C30_ReasoningSummaryOnce ==
    \A j \in JobIds :
        (/\ jobs[j].reasoningDone
         /\ MessageExists(messages, jobs[j].aiMessageId))
        => messages[jobs[j].aiMessageId].reasoningSummary = jobs[j].reasoned

\* A step inserts a message of status "typing".
TypingInserted ==
    /\ Len(messages') = Len(messages) + 1
    /\ messages'[Len(messages')].status = "typing"

\* A step changes the content of the existing message i.
ContentChanged(i) ==
    /\ messages[i].exists /\ messages'[i].exists
    /\ messages'[i].content # messages[i].content

\* A step changes the reasoning summary of the message i and not its status.
ReasoningChanged(i) ==
    /\ messages[i].exists /\ messages'[i].exists
    /\ messages'[i].reasoningSummary # messages[i].reasoningSummary
    /\ messages'[i].status = messages[i].status

\* C31 (no write amplification): a step that inserts the "typing" placeholder,
\* appends to a message's content or updates a reasoning summary leaves the
\* conversation document unchanged, and an append changes no field of the
\* message other than its content.
C31_NoWriteAmplification ==
    [][/\ (\/ TypingInserted
           \/ \E i \in 1..Len(messages) : ContentChanged(i) \/ ReasoningChanged(i))
          => conversation' = conversation
       /\ \A i \in 1..Len(messages) :
             ContentChanged(i)
             => messages'[i] = [messages[i] EXCEPT !.content = messages'[i].content]]_vars

\* C31, its case: a placeholder that has received content and a reasoning
\* summary while the conversation's token is still unset.
C31_Witness_Streamed ==
    \E i \in 1..Len(messages) :
        /\ messages[i].exists
        /\ messages[i].status = "typing"
        /\ messages[i].content # <<>>
        /\ messages[i].reasoningSummary # <<>>
        /\ conversation.exists
        /\ conversation.lastResponseId = None

\* C32 (one upstream call per turn): every run of generateAiResponse issues at
\* most one upstream generation request.
C32_OneUpstreamCall == \A j \in JobIds : jobs[j].upstreamCalls <= 1

\* C33 (each turn answers its own submission): the user message a
\* generateAiResponse job takes as its input is the one stored by the
\* submission that scheduled the job.
C33_TurnAnswersOwnSubmission ==
    \A j \in JobIds :
        jobs[j].lastMessage # NoMessage
        => jobs[j].lastMessage = submissions[j].userMessageId

\* C34 (no orphan messages): in every reachable state every message stored
\* for conversation c1 refers to an existing conversation.
C34_NoOrphanMessages ==
    MessagesOf(messages, "c1") # {} => conversation.exists

\* C35 (completed implies content): in no reachable state does an assistant
\* message have status "completed" together with empty content.
C35_CompletedImpliesContent ==
    \A i \in AssistantMessages(messages, "c1") :
        messages[i].status = "completed" => messages[i].content # <<>>

\* C36 (content frozen after finalization): once an assistant message has
\* status "completed" or "error", no later step changes its content, its
\* citations or its provider response id.
C36_FrozenAfterFinalization ==
    [][\A i \in 1..Len(messages) :
          (/\ messages[i].exists
           /\ messages[i].author = "assistant"
           /\ messages[i].status \in {"completed", "error"}
           /\ messages'[i].exists)
          => /\ messages'[i].content = messages[i].content
             /\ messages'[i].citations = messages[i].citations
             /\ messages'[i].openaiResponseId = messages[i].openaiResponseId]_vars

\* C37 (history roles): in the request an OpenRouter turn sends upstream every
\* message has the role of its author, and the current user message appears
\* exactly once.
C37_HistoryRoles ==
    \A j \in JobIds :
        jobs[j].request # <<>>
        => /\ \A k \in DOMAIN jobs[j].request :
                 jobs[j].request[k].role = jobs[j].request[k].author
           /\ Cardinality({k \in DOMAIN jobs[j].request :
                              jobs[j].request[k].messageId = jobs[j].lastMessage}) = 1

\* C38 (attachment state machine): a step changes a selected file's status
\* only from "uploading" to "uploaded" or to "error", and in every state a
\* file of status "uploaded" has a storage id.
C38_AttachmentStateMachine ==
    /\ [][\A k \in DOMAIN selectedFiles, l \in DOMAIN selectedFiles' :
             (/\ selectedFiles'[l].uuid = selectedFiles[k].uuid
              /\ selectedFiles'[l].status # selectedFiles[k].status)
             => /\ selectedFiles[k].status = "uploading"
                /\ selectedFiles'[l].status \in {"uploaded", "error"}]_vars
    /\ [](\A k \in DOMAIN selectedFiles :
             selectedFiles[k].status = "uploaded"
             => selectedFiles[k].convexStorageId # None)

\* C39 (all-files-failed rejection): an uploadFileAndSendMessage call with at
\* least one file, none of which was uploaded, raises: it never goes on to
\* store a user message or to schedule a turn.
C39_AllFilesFailedRejected ==
    (/\ submissions[1].pc # "idle"
     /\ "files" \in DOMAIN submissions[1]
     /\ Len(submissions[1].files) > 0
     /\ submissions[1].fileIds = <<>>)
    => /\ submissions[1].pc = "raised"
       /\ messages = <<>>
       /\ jobs[1] = JobNone

=============================================================================
